---- MODULE Spec2Model ----
(***************************************************************************)
(* A model of two Enki plugins:                                            *)
(*                                                                         *)
(*   - enki/plugins/ctags.py: the Navigator plugin.  Plugin (GUI thread:   *)
(*     typing timer, document events), ProcessorThread (the worker that    *)
(*     runs ctags, with its lock and its _haveData flag) and TagModel.     *)
(*     Specifications Spec (the tool may fail) and SpecToolOk (the tool    *)
(*     always succeeds).                                                   *)
(*     Its parser of the output of ctags, parseTags (a pure function).     *)
(*     Specification SpecParse.                                            *)
(*     processText statement by statement, with the directory it makes.    *)
(*     Specification SpecScratch.                                          *)
(*   - enki/plugins/preview/preview_sync.py: PreviewSync._alignScrollAmount *)
(*     (a pure function).  Specification SpecAlign.  _scrollSync, which    *)
(*     uses it.  Specification SpecScroll.  The slots and the              *)
(*     callbacks of PreviewSync, with the cursor timer and the matching    *)
(*     jobs of RunLatest.  Specifications SpecSync, SpecSyncSwitch and     *)
(*     SpecSyncHide.                                                       *)
(*   - SpecPlugins follows the threads of both plugins.                    *)
(*                                                                         *)
(* Every statement of ProcessorThread.process and ProcessorThread.run is   *)
(* one step, and the lock is a variable, so that the interleavings of the  *)
(* GUI thread with the worker are the ones the code allows.                *)
(***************************************************************************)
EXTENDS Integers, Sequences, FiniteSets, TLC

----------------------------------------------------------------------------
(* Bounds of the model *)

\* how many records the output of ctags holds at most
MaxRecords == 3

\* how many times ProcessorThread.process may be called in one behaviour
MaxCalls == 2

\* how many activations of ProcessorThread.run the model has room for
MaxWorkers == 2

\* how many clock ticks make one typing window
TicksPerWindow == 2

\* _alignScrollAmount's arguments are drawn from AlignLo .. AlignHi
AlignSpan == 2

\* how many syncs (timer expiries, syncTextToPreview calls, preview clicks) may
\* be started in one behaviour
MaxSyncs == 2

\* findApproxTextInTarget returns -1 or an index in 0 .. MaxIndex
MaxIndex == 0

----------------------------------------------------------------------------
(* Values *)

\* Python's None
NoneVal == "None"

\* document.fileName() of the documents the workspace can show
FileNames == {"a.py", "b.py"}

\* document.qutepart.text of the document of a name: the text it is opened
\* with, and the text it has once the user has edited it
SavedText(f) ==
    IF f = "a.py" THEN "a0" ELSE IF f = "b.py" THEN "b0" ELSE "u0"

EditedText(f) ==
    IF f = "a.py" THEN "a1" ELSE IF f = "b.py" THEN "b1" ELSE "u1"

Revisions(f) == {SavedText(f), EditedText(f)}

\* core.workspace().currentDocument() is None
NoDocument == [none |-> TRUE, fileName |-> NoneVal, text |-> NoneVal]

\* a document of a name (None: a document that has no file yet) showing a text
Document(f, t) == [none |-> FALSE, fileName |-> f, text |-> t]

\* what currentDocumentChanged can make the current document: none, or a
\* document that shows its saved text
OpenedDocuments ==
    {NoDocument} \cup {Document(f, SavedText(f)) : f \in FileNames \cup {NoneVal}}

\* the activations of ProcessorThread.run
Workers == 1 .. MaxWorkers

\* parseTags("") : no tags
EmptyTags == << >>

\* the tags ctags finds in (fileName, text): an abstract tree that names its input
TagsOf(f, t) == << [file |-> f, text |-> t] >>

VARIABLES
    \* ---- ProcessorThread (ctags.py 153-190)
    fileName,       \* self._fileName
    text,           \* self._text
    haveData,       \* self._haveData
    lock,           \* self._lock is held
    wpc,            \* position of each activation of run()
    wFileName,      \* run()'s local fileName
    wText,          \* run()'s local text
    wResult,        \* what processText returned to run()
    \* ---- the GUI thread
    gpc,            \* position of the GUI thread inside process()
    gArgs,          \* process()'s parameters
    tagsReadyQueue, \* tagsReady emissions queued to the GUI thread
    modelTags,      \* TagModel._tags
    typingTimer,    \* Plugin._typingTimer
    document,       \* core.workspace().currentDocument()
    \* ---- history
    nCalls,         \* how many times process() has been called
    calls,          \* the last two process() calls, oldest first
    lastPass,       \* the pass of run() that ended last
    burst,          \* the text changes since _scheduleDocumentProcessing last ran
    fileNameCall,   \* the number of the process() call that wrote self._fileName
    textCall,       \* the number of the process() call that wrote self._text
    wCalls,         \* the calls that wrote what run() holds in fileName and text
    lastRead,       \* the number of the call whose text run() has read last
    \* ---- processText, statement by statement (ctags.py 86-97)
    tmpDirs,        \* the directories made by tempfile.mkdtemp that exist
    tmpFiles,       \* the files in them
    ptCalls,        \* the calls of processText: position and local variables
    \* ---- _alignScrollAmount (preview_sync.py 93-131)
    alignArgs,      \* the arguments of a call
    alignResult,    \* the value the call returned
    \* ---- _scrollSync (preview_sync.py 258-341)
    scrollCall,     \* alreadyScrolling, and what the page answers
    scrollResult,   \* what the callback of _scrollSync has done
    \* ---- PreviewSync (preview_sync.py 39-74, 511-670)
    available,      \* findApproxTextInTarget is not None
    connected,      \* the slots of PreviewSync are connected to their signals
    dockVisible,    \* self._dock.isVisible()
    cursorTimer,    \* self._cursorMovementTimer
    previewToTextSyncRunning,   \* self._previewToTextSyncRunning
    syncs,          \* the syncs in flight, oldest first, each at its stage
    syncFailed,     \* a slot of PreviewSync has raised
    \* ---- history of PreviewSync
    nSyncs,         \* how many syncs have been started, in either direction
    cursorBurst,    \* the cursor moves since syncTextToPreview last ran
    lastAct,        \* what the last step has done, if a slot or callback ran
    watch,          \* the event the history follows: "switch", "hide" or none
    \* ---- which thread does what
    viewMutators,   \* << view, thread >>: the thread has changed the view
    longOpsBy,      \* << operation, thread >>: the thread has run the operation
    \* ---- parseTags (ctags.py 37-83)
    parseInput,     \* the records of the text given to parseTags
    parseResult     \* what the call returned

threadVars == << fileName, text, haveData, lock, wpc, wFileName, wText, wResult >>

guiVars == << gpc, gArgs, tagsReadyQueue, modelTags, typingTimer, document >>

histVars == << nCalls, calls, lastPass, burst >>

\* the history of who wrote the input of the worker
pairVars == << fileNameCall, textCall, wCalls, lastRead >>

alignVars == << alignArgs, alignResult, scrollCall, scrollResult >>

syncVars ==
    << available, connected, dockVisible, cursorTimer, previewToTextSyncRunning,
       syncs, syncFailed, nSyncs, cursorBurst, lastAct, watch >>

logVars == << viewMutators, longOpsBy >>

parseVars == << parseInput, parseResult >>

\* the file system and the calls of processText
scratchVars == << tmpDirs, tmpFiles, ptCalls >>

\* the variables of processText calls, of PreviewSync and of parseTags calls
restVars == << scratchVars, alignVars, syncVars, parseVars >>

vars ==
    << threadVars, guiVars, histVars, pairVars, scratchVars, alignVars, syncVars,
       logVars, parseVars >>

----------------------------------------------------------------------------
(* Helpers *)

Min(a, b) == IF a <= b THEN a ELSE b

Max(a, b) == IF a >= b THEN a ELSE b

Last(s) == s[Len(s)]

\* the least element of a non-empty set of integers
Least(S) == CHOOSE x \in S : \A y \in S : x <= y

----------------------------------------------------------------------------
(* QTimer, as Plugin uses it (ctags.py 217-219, 228, 245-246, 254) *)

\* self._typingTimer.setInterval(1000)
TypingInterval == 1000

\* the time one clock tick stands for, in ms
TickMs == TypingInterval \div TicksPerWindow

\* QTimer.stop()
TimerStop(t) == [t EXCEPT !.active = FALSE]

\* QTimer.start(): the timer runs a full interval from now
TimerStart(t) == [active |-> TRUE, elapsed |-> 0]

\* a running timer after dt more ms (what is over the interval is not counted)
TimerAdvance(t, dt) ==
    IF t.active
    THEN [t EXCEPT !.elapsed = Min(TypingInterval, t.elapsed + dt)]
    ELSE t

\* the timer is due: its timeout signal is delivered when the GUI thread is free
TimerDue(t) == t.active /\ t.elapsed >= TypingInterval

----------------------------------------------------------------------------
(* processText (ctags.py 86-97) *)

\* processText(fileName, text): an exception, or the tags parsed from the
\* tool's standard output.  The exit status of the tool is never read.
\* tool is what the file system and the ctags subprocess do in the call:
\*   "ok"     ctags runs and prints the tags of the text
\*   "failed" ctags runs, exits with an error and prints nothing
\*   "raised" mkdtemp, open, write, Popen or parseTags raises
processText(f, t, tool) ==
    IF tool = "raised"
    THEN [raised |-> TRUE, tool |-> tool, tags |-> EmptyTags]
    ELSE IF tool = "failed"
    THEN [raised |-> FALSE, tool |-> tool, tags |-> EmptyTags]
    ELSE [raised |-> FALSE, tool |-> tool, tags |-> TagsOf(f, t)]

\* run() has no result of processText yet
NoResult == [raised |-> FALSE, tool |-> NoneVal, tags |-> EmptyTags]

----------------------------------------------------------------------------
(* ProcessorThread (ctags.py 153-190) *)

\* QThread.isRunning(): true from start() until the thread has finished
IsRunning == \E w \in Workers : wpc[w] # "idle"

\* (a bug to compare with: process() starts a thread on every call)
ShouldStartAlways == TRUE

\* process(), line 172: start the thread only when it is not running
ShouldStart == ~IsRunning

\* QThread.start(), line 173: a new activation of run()
QThreadStart(pcs) ==
    LET free == {w \in Workers : pcs[w] = "idle"}
    IN  IF free = {} THEN pcs ELSE [pcs EXCEPT ![Least(free)] = "run"]

\* (a bug to compare with: run() emits whatever it has computed)
ShouldEmitAlways == TRUE

\* run(), line 187: emit only when no newer input has arrived
ShouldEmit == ~haveData

\* the input most recently passed to process()
LatestInput == << Last(calls).fileName, Last(calls).text >>

\* run() has not ended a pass yet
NoPass == [fileName |-> NoneVal, text |-> NoneVal, tool |-> NoneVal,
           tags |-> EmptyTags, outcome |-> NoneVal, latest |-> << >>]

\* the worker still owes a result: input is waiting to be read, or a pass has
\* read its input and has not reached its completion check
PassPending ==
    haveData \/ \E w \in Workers : wpc[w] \in {"processText", "check"}

\* the history of calls after one more call
CallsAfter(c) ==
    LET all == Append(calls, c)
    IN  IF Len(all) > 2 THEN Tail(all) ELSE all

\* the history of calls after tagsReady.emit(tags)
CallsAfterEmit(tags) ==
    [i \in DOMAIN calls |-> [calls[i] EXCEPT !.emitted = Append(@, tags)]]

\* a call of processText that is not executing; failed names the statement
\* that raised in the call that ended last
NoProcessText(failed) ==
    [pc |-> "idle", fileName |-> NoneVal, text |-> NoneVal, tmpDir |-> NoneVal,
     raising |-> NoneVal, failed |-> failed]

\* no call of processText has been made: mkdtemp has made no directory
NoScratch ==
    /\ tmpDirs = {}
    /\ tmpFiles = {}
    /\ ptCalls = [w \in Workers |-> NoProcessText(NoneVal)]

\* run() holds no input
NoCall == 0

\* process() has not been called: nobody has written the input of the worker
NoCallsYet ==
    /\ fileNameCall = NoCall
    /\ textCall = NoCall
    /\ wCalls = [w \in Workers |-> [fileName |-> NoCall, text |-> NoCall]]
    /\ lastRead = NoCall

\* process(fileName, text) is called: the GUI thread goes for the lock
ProcessCalled(f, t) ==
    /\ gpc' = "lock"
    /\ gArgs' = [fileName |-> f, text |-> t]

NoArgs == [fileName |-> NoneVal, text |-> NoneVal]

\* (a bug to compare with: process() does not wait for the lock)
PLockNoWait ==
    /\ gpc = "lock"
    /\ lock' = TRUE
    /\ gpc' = "setFileName"
    /\ calls' = CallsAfter([fileName |-> gArgs.fileName, text |-> gArgs.text,
                             early |-> PassPending, emitted |-> << >>])
    /\ nCalls' = nCalls + 1
    /\ UNCHANGED << fileName, text, haveData, wpc, wFileName, wText, wResult >>
    /\ UNCHANGED << gArgs, tagsReadyQueue, modelTags, typingTimer, document >>
    /\ UNCHANGED << lastPass, burst, pairVars, restVars, logVars >>

\* line 168: with self._lock
PLock ==
    /\ gpc = "lock"
    /\ ~lock
    /\ lock' = TRUE
    /\ gpc' = "setFileName"
    /\ calls' = CallsAfter([fileName |-> gArgs.fileName, text |-> gArgs.text,
                             early |-> PassPending, emitted |-> << >>])
    /\ nCalls' = nCalls + 1
    /\ UNCHANGED << fileName, text, haveData, wpc, wFileName, wText, wResult >>
    /\ UNCHANGED << gArgs, tagsReadyQueue, modelTags, typingTimer, document >>
    /\ UNCHANGED << lastPass, burst, pairVars, restVars, logVars >>

\* line 169: self._fileName = fileName
PSetFileName ==
    /\ gpc = "setFileName"
    /\ fileName' = gArgs.fileName
    /\ gpc' = "setHaveData"
    /\ UNCHANGED << text, haveData, lock, wpc, wFileName, wText, wResult >>
    /\ UNCHANGED << gArgs, tagsReadyQueue, modelTags, typingTimer, document >>
    /\ UNCHANGED << histVars, restVars, logVars >>
    /\ fileNameCall' = nCalls
    /\ UNCHANGED << textCall, wCalls, lastRead >>

\* line 170: self._haveData = True
PSetHaveData ==
    /\ gpc = "setHaveData"
    /\ haveData' = TRUE
    /\ gpc' = "setText"
    /\ UNCHANGED << fileName, text, lock, wpc, wFileName, wText, wResult >>
    /\ UNCHANGED << gArgs, tagsReadyQueue, modelTags, typingTimer, document >>
    /\ UNCHANGED << histVars, pairVars, restVars, logVars >>

\* line 171: self._text = text
PSetText ==
    /\ gpc = "setText"
    /\ text' = gArgs.text
    /\ gpc' = "checkRunning"
    /\ UNCHANGED << fileName, haveData, lock, wpc, wFileName, wText, wResult >>
    /\ UNCHANGED << gArgs, tagsReadyQueue, modelTags, typingTimer, document >>
    /\ UNCHANGED << histVars, restVars, logVars >>
    /\ textCall' = nCalls
    /\ UNCHANGED << fileNameCall, wCalls, lastRead >>

\* lines 172-173: if not self.isRunning(): self.start(...); the lock is released
PCheckRunning ==
    /\ gpc = "checkRunning"
    /\ wpc' = IF ShouldStart THEN QThreadStart(wpc) ELSE wpc
    /\ lock' = FALSE
    /\ gpc' = "idle"
    /\ gArgs' = NoArgs
    /\ UNCHANGED << fileName, text, haveData, wFileName, wText, wResult >>
    /\ UNCHANGED << tagsReadyQueue, modelTags, typingTimer, document >>
    /\ UNCHANGED << histVars, pairVars, restVars, logVars >>

\* line 179: with self._lock (top of the loop)
WLock1(w) ==
    /\ wpc[w] = "run"
    /\ ~lock
    /\ lock' = TRUE
    /\ wpc' = [wpc EXCEPT ![w] = "readFileName"]
    /\ UNCHANGED << fileName, text, haveData, wFileName, wText, wResult >>
    /\ UNCHANGED << guiVars, histVars, pairVars, restVars, logVars >>

\* line 180: fileName = self._fileName
WReadFileName(w) ==
    /\ wpc[w] = "readFileName"
    /\ wFileName' = [wFileName EXCEPT ![w] = fileName]
    /\ wpc' = [wpc EXCEPT ![w] = "readText"]
    /\ UNCHANGED << fileName, text, haveData, lock, wText, wResult >>
    /\ UNCHANGED << guiVars, histVars, restVars, logVars >>
    /\ wCalls' = [wCalls EXCEPT ![w].fileName = fileNameCall]
    /\ UNCHANGED << fileNameCall, textCall, lastRead >>

\* line 181: text = self._text
WReadText(w) ==
    /\ wpc[w] = "readText"
    /\ wText' = [wText EXCEPT ![w] = text]
    /\ wpc' = [wpc EXCEPT ![w] = "clearHaveData"]
    /\ UNCHANGED << fileName, text, haveData, lock, wFileName, wResult >>
    /\ UNCHANGED << guiVars, histVars, restVars, logVars >>
    /\ wCalls' = [wCalls EXCEPT ![w].text = textCall]
    /\ lastRead' = textCall
    /\ UNCHANGED << fileNameCall, textCall >>

\* line 182: self._haveData = False; the lock is released
WClearHaveData(w) ==
    /\ wpc[w] = "clearHaveData"
    /\ haveData' = FALSE
    /\ lock' = FALSE
    /\ wpc' = [wpc EXCEPT ![w] = "processText"]
    /\ UNCHANGED << fileName, text, wFileName, wText, wResult >>
    /\ UNCHANGED << guiVars, histVars, pairVars, restVars, logVars >>

\* the thread that executes ProcessorThread.run()
WorkerThread == "ProcessorThread"

\* line 184: tags = processText(fileName, text), under what the tool does
WProcessText(w, tool) ==
    /\ wpc[w] = "processText"
    /\ LET r == processText(wFileName[w], wText[w], tool)
       IN  IF r.raised
           THEN \* nothing in run() catches it: run() ends here
                /\ wpc' = [wpc EXCEPT ![w] = "uncaught"]
                /\ wResult' = [wResult EXCEPT ![w] = NoResult]
                /\ lastPass' =
                       [fileName |-> wFileName[w], text |-> wText[w],
                        tool |-> tool, tags |-> EmptyTags,
                        outcome |-> "uncaught", latest |-> LatestInput]
           ELSE /\ wpc' = [wpc EXCEPT ![w] = "check"]
                /\ wResult' = [wResult EXCEPT ![w] = r]
                /\ lastPass' = lastPass
    /\ longOpsBy' = longOpsBy \cup {<< "ctags", WorkerThread >>}
    /\ UNCHANGED << fileName, text, haveData, lock, wFileName, wText >>
    /\ UNCHANGED << guiVars, nCalls, calls, burst, pairVars, restVars, viewMutators >>

\* the tool succeeds
WProcessTextOk(w) == WProcessText(w, "ok")

\* the tool runs and fails
WProcessTextToolFails(w) == WProcessText(w, "failed")

\* an exception leaves processText
WProcessTextRaises(w) == WProcessText(w, "raised")

\* line 186: with self._lock (after processText)
WLock2(w) ==
    /\ wpc[w] = "check"
    /\ ~lock
    /\ lock' = TRUE
    /\ wpc' = [wpc EXCEPT ![w] = "checkHaveData"]
    /\ UNCHANGED << fileName, text, haveData, wFileName, wText, wResult >>
    /\ UNCHANGED << guiVars, histVars, pairVars, restVars, logVars >>

\* lines 187-190: if not self._haveData: emit and break; else next iteration.
\* The lock is released on both ways out of the with block.  tagsReady is
\* connected to TagModel.setTags, an object of the GUI thread: the emission is
\* queued to the GUI thread's event loop.
WCheckHaveData(w) ==
    /\ wpc[w] = "checkHaveData"
    /\ LET pass(o) == [fileName |-> wFileName[w], text |-> wText[w],
                       tool |-> wResult[w].tool, tags |-> wResult[w].tags,
                       outcome |-> o, latest |-> LatestInput]
       IN  IF ShouldEmit
           THEN /\ tagsReadyQueue' = Append(tagsReadyQueue, wResult[w].tags)
                /\ lastPass' = pass("emitted")
                /\ calls' = CallsAfterEmit(wResult[w].tags)
                /\ wpc' = [wpc EXCEPT ![w] = "returned"]
           ELSE /\ tagsReadyQueue' = tagsReadyQueue
                /\ lastPass' = pass("discarded")
                /\ calls' = calls
                /\ wpc' = [wpc EXCEPT ![w] = "run"]
    /\ lock' = FALSE
    /\ wFileName' = [wFileName EXCEPT ![w] = NoneVal]
    /\ wText' = [wText EXCEPT ![w] = NoneVal]
    /\ wResult' = [wResult EXCEPT ![w] = NoResult]
    /\ UNCHANGED << fileName, text, haveData >>
    /\ UNCHANGED << gpc, gArgs, modelTags, typingTimer, document >>
    /\ UNCHANGED << nCalls, burst, restVars, logVars >>
    /\ wCalls' = [wCalls EXCEPT ![w] = [fileName |-> NoCall, text |-> NoCall]]
    /\ UNCHANGED << fileNameCall, textCall, lastRead >>

\* run() has returned, or an exception has left it: the thread finishes and
\* isRunning() becomes false
WFinished(w) ==
    /\ wpc[w] \in {"returned", "uncaught"}
    /\ wpc' = [wpc EXCEPT ![w] = "idle"]
    /\ wFileName' = [wFileName EXCEPT ![w] = NoneVal]
    /\ wText' = [wText EXCEPT ![w] = NoneVal]
    /\ UNCHANGED << fileName, text, haveData, lock, wResult >>
    /\ UNCHANGED << guiVars, histVars, restVars, logVars >>
    /\ wCalls' = [wCalls EXCEPT ![w] = [fileName |-> NoCall, text |-> NoCall]]
    /\ UNCHANGED << fileNameCall, textCall, lastRead >>

----------------------------------------------------------------------------
(* TagModel (ctags.py 100-107) and Plugin (ctags.py 193-259) *)

\* TagModel.setTags(tags): self._tags = tags
setTags(tags) == tags

\* (a bug to compare with: a running timer is left to run on, not restarted)
OnTextChangedTimerNoRestart(t) == IF t.active THEN t ELSE TimerStart(t)

\* _onTextChanged, lines 245-246: self._typingTimer.stop(); self._typingTimer.start()
OnTextChangedTimer(t) == TimerStart(TimerStop(t))

ScheduleTimerKeep(t) == t

\* _scheduleDocumentProcessing, line 254: self._typingTimer.stop()
ScheduleTimer(t) == TimerStop(t)

\* _scheduleDocumentProcessing, lines 257-258: document is not None and
\* document.fileName() is not None
HasFileName(doc) == ~doc.none /\ doc.fileName # NoneVal

\* _scheduleDocumentProcessing (lines 251-259), entered with the timer in
\* state t and doc the current document
ScheduleDocumentProcessing(t, doc) ==
    /\ typingTimer' = ScheduleTimer(t)
    /\ IF HasFileName(doc)
       THEN ProcessCalled(doc.fileName, doc.text)
       ELSE gpc' = "idle" /\ gArgs' = NoArgs

\* The history of the typing timer.  pending: the text has changed since
\* _scheduleDocumentProcessing last ran; age: the time since the last text
\* change, counted while pending; fires: how many times the timer has fired
\* since the last text change; events: how many text changes the burst that is
\* pending, or that the timer served last, is made of (2 stands for more).
NoBurst == [pending |-> FALSE, age |-> 0, fires |-> 0, events |-> 0]

\* the handler may call process(): the model has room for the call
RoomFor(doc) == HasFileName(doc) => nCalls < MaxCalls

\* workspace.textChanged -> Plugin._onTextChanged (lines 243-246); _isEnabled()
\* is always True.  The user has changed the text of the current document to t.
OnTextChanged(t) ==
    /\ gpc = "idle"
    /\ ~document.none
    /\ t \in Revisions(document.fileName)
    /\ t # document.text
    /\ document' = [document EXCEPT !.text = t]
    /\ typingTimer' = OnTextChangedTimer(typingTimer)
    /\ burst' = [pending |-> TRUE, age |-> 0, fires |-> 0,
                 events |-> IF burst.pending THEN 2 ELSE 1]
    /\ UNCHANGED << threadVars, gpc, gArgs, tagsReadyQueue, modelTags >>
    /\ UNCHANGED << nCalls, calls, lastPass, pairVars, restVars, logVars >>

\* workspace.currentDocumentChanged -> Plugin._onDocumentChanged (lines 237-241);
\* _isEnabled() and _isSupported() are always True
OnDocumentChanged(new) ==
    /\ gpc = "idle"
    /\ RoomFor(new)
    /\ document' = new
    /\ ScheduleDocumentProcessing(typingTimer, new)
    /\ burst' = NoBurst
    /\ UNCHANGED << threadVars, tagsReadyQueue, modelTags >>
    /\ UNCHANGED << nCalls, calls, lastPass, pairVars, restVars, logVars >>

\* _typingTimer.timeout -> Plugin._scheduleDocumentProcessing (line 219).  The
\* timer is not single-shot: it is running its next interval when the slot is
\* entered.
OnTypingTimeout ==
    /\ gpc = "idle"
    /\ TimerDue(typingTimer)
    /\ RoomFor(document)
    /\ ScheduleDocumentProcessing(TimerStart(typingTimer), document)
    /\ burst' = [burst EXCEPT !.fires = Min(2, @ + 1), !.pending = FALSE]
    /\ UNCHANGED << threadVars, tagsReadyQueue, modelTags, document >>
    /\ UNCHANGED << nCalls, calls, lastPass, pairVars, restVars, logVars >>

\* the thread that runs the event loop of the application
GuiThread == "gui"

\* (a bug to compare with: a direct connection, the slot runs where the signal
\* is emitted)
SlotThreadDirect(emitter, receiver) == emitter

\* the thread that runs a slot connected as at line 222 (Qt.AutoConnection),
\* for a signal emitted in thread emitter to an object that lives in thread
\* receiver: the slot is called in place when the two are the same thread, and
\* is queued to the receiver's event loop otherwise
SlotThread(emitter, receiver) == IF emitter = receiver THEN emitter ELSE receiver

\* tagsReady -> TagModel.setTags (line 222), delivered by the GUI event loop
DeliverTagsReady ==
    /\ gpc = "idle"
    /\ tagsReadyQueue # << >>
    /\ modelTags' = setTags(Head(tagsReadyQueue))
    /\ tagsReadyQueue' = Tail(tagsReadyQueue)
    /\ viewMutators' =
           viewMutators \cup {<< "tree", SlotThread(WorkerThread, GuiThread) >>}
    /\ UNCHANGED << threadVars, gpc, gArgs, typingTimer, document >>
    /\ UNCHANGED << histVars, pairVars, restVars, longOpsBy >>

\* TickMs of time pass
Tick ==
    /\ typingTimer' = TimerAdvance(typingTimer, TickMs)
    /\ burst' = IF burst.pending
                 THEN [burst EXCEPT !.age = Min(TypingInterval, @ + TickMs)]
                 ELSE burst
    /\ << typingTimer', burst' >> # << typingTimer, burst >>
    /\ UNCHANGED << threadVars, gpc, gArgs, tagsReadyQueue, modelTags, document >>
    /\ UNCHANGED << nCalls, calls, lastPass, pairVars, restVars, logVars >>

----------------------------------------------------------------------------
(* PreviewSync: values, timer and RunLatest (preview_sync.py 39-74, 562-583) *)

\* self._cursorMovementTimer.setInterval(300)
CursorInterval == 300

\* the time one clock tick stands for when the cursor timer is watched, in ms
CursorTickMs == CursorInterval \div TicksPerWindow

\* the running cursor timer after dt more ms
CursorTimerAdvance(t, dt) ==
    IF t.active
    THEN [t EXCEPT !.elapsed = Min(CursorInterval, t.elapsed + dt)]
    ELSE t

\* the cursor timer is due
CursorTimerDue(t) == t.active /\ t.elapsed >= CursorInterval

\* what findApproxTextInTarget can return: -1 when it finds no match, or an
\* index into the target text
MatchIndexes == (0 - 1) .. MaxIndex

\* a sync whose match has not been computed yet
NoIndex == 0 - 2

\* The stages of a sync in flight:
\*   "plainText"     page.toPlainText(self._havePlainText) is pending
\*   "queued"        the job is waiting for RunLatest's thread
\*   "running"       findApproxTextInTarget is running in RunLatest's thread
\*   "finished"      the job is done, its completion is not delivered yet
\*   "highlight"     runJavaScript('highlightFind(...)', callback) is pending
\*   "scroll"        _scrollSync(False): the callback of selectionAnchorCoords()
\*                   is pending
\*   "editorScroll"  _scrollSync(): the same, after a click in the preview
JobStages == {"queued", "running", "finished"}

\* a sync that enters the pipeline.  discard: its future is cancelled; index:
\* the match; fromClick: it comes from a cursor move made by a click in the
\* preview (history); stale: the event that is watched (the document was
\* switched, or the dock was hidden) has happened since the sync was initiated,
\* the start of its timer included (history)
NewSync(stage, fromClick, stale) ==
    [stage |-> stage, discard |-> FALSE, index |-> NoIndex,
     fromClick |-> fromClick, stale |-> stale]

\* the positions of the syncs that are at a stage
AtStage(ss, stage) == {i \in 1 .. Len(ss) : ss[i].stage = stage}

\* the sync that leaves a stage next: callbacks and jobs are served in order
FirstAt(ss, stage) == Least(AtStage(ss, stage))

\* the sequence without its i-th element
RemoveAt(ss, i) == [j \in 1 .. Len(ss) - 1 |-> IF j < i THEN ss[j] ELSE ss[j + 1]]

\* self._runLatest.future: the job started last, while it is with RunLatest
CurrentFuture(ss) == {i \in 1 .. Len(ss) : /\ ss[i].stage \in JobStages
                                           /\ \A j \in (i + 1) .. Len(ss) :
                                                  ss[j].stage \notin JobStages}

\* Future.cancel(True): the result of the job is not to be delivered
FutureCancel(ss) ==
    [i \in 1 .. Len(ss) |->
        IF i \in CurrentFuture(ss) THEN [ss[i] EXCEPT !.discard = TRUE] ELSE ss[i]]

\* (a bug to compare with: the job is started without cancelling the one before)
RunLatestStartNoCancel(ss, i) == [ss EXCEPT ![i].stage = "queued"]

\* RunLatest.start(callback, f, ...): cancel the job started before and queue
\* the new one for the thread
RunLatestStart(ss, i) == [FutureCancel(ss) EXCEPT ![i].stage = "queued"]

\* the thread of RunLatest('QThread', self)
MatchThread == "RunLatest"

\* the history of the cursor timer, as for the typing timer; fromClick: a
\* click in the preview moved the cursor last; stale: the dock was hidden
\* while the timer was running, when that is watched
NoCursorBurst ==
    [pending |-> FALSE, age |-> 0, fires |-> 0, events |-> 0,
     fromClick |-> FALSE, stale |-> FALSE]

\* the last step ran no slot and no callback of PreviewSync
NoAct ==
    [handler |-> NoneVal, effects |-> {}, index |-> NoIndex, latest |-> TRUE,
     stale |-> FALSE]

\* the last step ran a slot, which had no effect
Act(handler) == [NoAct EXCEPT !.handler = handler]

\* the last step ran a slot or callback that handled a sync: its effects,
\* and whether the job of the sync was the one started last
ActOn(handler, sync, effects, latest) ==
    [handler |-> handler, effects |-> effects, index |-> sync.index,
     latest |-> latest, stale |-> sync.stale]

\* PreviewSync.__init__ (46-60): nothing is set up unless findApproxTextInTarget
\* is there; _initTextToPreviewSync (562-579) creates the timer, connects the
\* slots and clears _previewToTextSyncRunning.  The dock is shown.
PreviewSyncConstructed(avail) ==
    /\ available = avail
    /\ connected = avail
    /\ dockVisible = TRUE
    /\ cursorTimer = [active |-> FALSE, elapsed |-> 0]
    /\ previewToTextSyncRunning = FALSE
    /\ syncs = << >>
    /\ syncFailed = FALSE
    /\ nSyncs = 0
    /\ cursorBurst = NoCursorBurst
    /\ lastAct = NoAct

\* no thread has done anything yet
NothingLogged == viewMutators = {} /\ longOpsBy = {}

\* parseTags is not called
NoParseInput == << >>

\* parseTags has not returned
NoParseResult == [done |-> FALSE, raised |-> FALSE, tags |-> << >>, roots |-> << >>]

----------------------------------------------------------------------------
(* The Navigator plugin: specifications *)

\* _alignScrollAmount is not called
NoAlignArgs ==
    [sourceGlobalTop |-> 0, sourceCursorBottom |-> 0, targetGlobalTop |-> 0,
     targetCursorBottom |-> 0, targetHeight |-> 0, targetCursorHeight |-> 0,
     padding |-> 0]

\* _alignScrollAmount has not returned
NoAlignResult == [done |-> FALSE, delta |-> 0]

\* _scrollSync has not been called
NoScrollCall == [alreadyScrolling |-> NoneVal, selection |-> FALSE]

\* the callback of _scrollSync has not run
NoScrollResult == [done |-> FALSE, web |-> FALSE, editor |-> FALSE, raised |-> FALSE, deltaY |-> 0]

\* ProcessorThread.__init__ (158-163), TagModel.__init__ (101-103),
\* Plugin.__init__ (196-222); no document is open
Init ==
    /\ fileName = NoneVal
    /\ text = NoneVal
    /\ haveData = FALSE
    /\ lock = FALSE
    /\ wpc = [w \in Workers |-> "idle"]
    /\ wFileName = [w \in Workers |-> NoneVal]
    /\ wText = [w \in Workers |-> NoneVal]
    /\ wResult = [w \in Workers |-> NoResult]
    /\ NoCallsYet
    /\ NoScratch
    /\ gpc = "idle"
    /\ gArgs = NoArgs
    /\ tagsReadyQueue = << >>
    /\ modelTags = EmptyTags
    /\ typingTimer = [active |-> FALSE, elapsed |-> 0]
    /\ document = NoDocument
    /\ nCalls = 0
    /\ calls = << >>
    /\ lastPass = NoPass
    /\ burst = NoBurst
    /\ alignArgs = NoAlignArgs
    /\ alignResult = NoAlignResult
    /\ scrollCall = NoScrollCall
    /\ scrollResult = NoScrollResult
    /\ PreviewSyncConstructed(TRUE)
    /\ watch = NoneVal
    /\ NothingLogged
    /\ parseInput = NoParseInput
    /\ parseResult = NoParseResult

\* the steps in which the tool does not fail
NextToolOk ==
    \/ \E t \in Revisions(document.fileName) : OnTextChanged(t)
    \/ \E d \in OpenedDocuments : OnDocumentChanged(d)
    \/ OnTypingTimeout
    \/ DeliverTagsReady
    \/ Tick
    \/ PLock
    \/ PSetFileName
    \/ PSetHaveData
    \/ PSetText
    \/ PCheckRunning
    \/ \E w \in Workers : WLock1(w)
    \/ \E w \in Workers : WReadFileName(w)
    \/ \E w \in Workers : WReadText(w)
    \/ \E w \in Workers : WClearHaveData(w)
    \/ \E w \in Workers : WProcessTextOk(w)
    \/ \E w \in Workers : WLock2(w)
    \/ \E w \in Workers : WCheckHaveData(w)
    \/ \E w \in Workers : WFinished(w)

\* the steps in which the tool fails
NextToolFails ==
    \/ \E w \in Workers : WProcessTextToolFails(w)
    \/ \E w \in Workers : WProcessTextRaises(w)

Next == NextToolOk \/ NextToolFails

\* the plugin with a tool that may fail
Spec == Init /\ [][Next]_vars

\* the plugin with a tool that never fails
SpecToolOk == Init /\ [][NextToolOk]_vars

----------------------------------------------------------------------------
(* processText, statement by statement (ctags.py 86-97) *)

\* the names tempfile.mkdtemp can give: it never runs out of them
DirNames == 1 .. MaxWorkers + 1

\* tempfile.mkdtemp makes a directory that did not exist
FreshNames(dirs) == DirNames \ dirs

\* (a bug to compare with: rmtree at the end of the try block, no finally)
FinallyRemovesOnSuccess(raising) == raising = NoneVal

\* lines 94-95: finally: shutil.rmtree(tmpDir), whatever the try block did
FinallyRemoves(raising) == TRUE

\* shutil.rmtree(d)
rmtree(files, d) == {f \in files : f.dir # d}

\* processText(f, t) is called by the activation w of run() (line 184)
ProcessTextCalled(w, f, t) ==
    /\ ptCalls[w].pc = "idle"
    /\ ptCalls' = [ptCalls EXCEPT ![w] =
                      [pc |-> "mkdtemp", fileName |-> f, text |-> t,
                       tmpDir |-> NoneVal, raising |-> NoneVal, failed |-> NoneVal]]
    /\ UNCHANGED << tmpDirs, tmpFiles >>
    /\ UNCHANGED << threadVars, guiVars, histVars, pairVars >>
    /\ UNCHANGED << alignVars, syncVars, logVars, parseVars >>

\* line 87: tmpDir = tempfile.mkdtemp()
Mkdtemp(w, d) ==
    /\ ptCalls[w].pc = "mkdtemp"
    /\ d \in FreshNames(tmpDirs)
    /\ tmpDirs' = tmpDirs \cup {d}
    /\ ptCalls' = [ptCalls EXCEPT ![w].tmpDir = d, ![w].pc = "write"]
    /\ UNCHANGED tmpFiles
    /\ UNCHANGED << threadVars, guiVars, histVars, pairVars >>
    /\ UNCHANGED << alignVars, syncVars, logVars, parseVars >>

\* line 87: mkdtemp raises; the try block has not been entered
MkdtempRaises(w) ==
    /\ ptCalls[w].pc = "mkdtemp"
    /\ ptCalls' = [ptCalls EXCEPT ![w] = NoProcessText("mkdtemp")]
    /\ UNCHANGED << tmpDirs, tmpFiles >>
    /\ UNCHANGED << threadVars, guiVars, histVars, pairVars >>
    /\ UNCHANGED << alignVars, syncVars, logVars, parseVars >>

\* lines 89-91: the text is written to tmpDir/fileName
WriteText(w) ==
    /\ ptCalls[w].pc = "write"
    /\ tmpFiles' = tmpFiles \cup
                       {[dir |-> ptCalls[w].tmpDir, name |-> ptCalls[w].fileName,
                         text |-> ptCalls[w].text, by |-> w]}
    /\ ptCalls' = [ptCalls EXCEPT ![w].pc = "popen"]
    /\ UNCHANGED tmpDirs
    /\ UNCHANGED << threadVars, guiVars, histVars, pairVars >>
    /\ UNCHANGED << alignVars, syncVars, logVars, parseVars >>

\* lines 89-91: open or write raises; control goes to the finally clause
WriteTextRaises(w) ==
    /\ ptCalls[w].pc = "write"
    /\ ptCalls' = [ptCalls EXCEPT ![w].pc = "finally", ![w].raising = "write"]
    /\ UNCHANGED << tmpDirs, tmpFiles >>
    /\ UNCHANGED << threadVars, guiVars, histVars, pairVars >>
    /\ UNCHANGED << alignVars, syncVars, logVars, parseVars >>

\* lines 92-93: ctags runs on the file and ends, with whatever exit status
RunTool(w) ==
    /\ ptCalls[w].pc = "popen"
    /\ ptCalls' = [ptCalls EXCEPT ![w].pc = "finally"]
    /\ UNCHANGED << tmpDirs, tmpFiles >>
    /\ UNCHANGED << threadVars, guiVars, histVars, pairVars >>
    /\ UNCHANGED << alignVars, syncVars, logVars, parseVars >>

\* line 92: Popen raises (ctags cannot be run); control goes to the finally clause
RunToolRaises(w) ==
    /\ ptCalls[w].pc = "popen"
    /\ ptCalls' = [ptCalls EXCEPT ![w].pc = "finally", ![w].raising = "popen"]
    /\ UNCHANGED << tmpDirs, tmpFiles >>
    /\ UNCHANGED << threadVars, guiVars, histVars, pairVars >>
    /\ UNCHANGED << alignVars, syncVars, logVars, parseVars >>

\* lines 94-95: the finally clause; then the exception of the try block goes
\* on to the caller, or line 97 is next
Finally(w) ==
    /\ ptCalls[w].pc = "finally"
    /\ IF FinallyRemoves(ptCalls[w].raising)
       THEN /\ tmpDirs' = tmpDirs \ {ptCalls[w].tmpDir}
            /\ tmpFiles' = rmtree(tmpFiles, ptCalls[w].tmpDir)
       ELSE UNCHANGED << tmpDirs, tmpFiles >>
    /\ ptCalls' = [ptCalls EXCEPT ![w] =
                      IF ptCalls[w].raising = NoneVal
                      THEN [@ EXCEPT !.pc = "parseTags"]
                      ELSE NoProcessText(ptCalls[w].raising)]
    /\ UNCHANGED << threadVars, guiVars, histVars, pairVars >>
    /\ UNCHANGED << alignVars, syncVars, logVars, parseVars >>

\* line 97: return parseTags(stdout); raised tells whether parseTags raises
ReturnParseTags(w, raised) ==
    /\ ptCalls[w].pc = "parseTags"
    /\ ptCalls' = [ptCalls EXCEPT ![w] =
                      NoProcessText(IF raised THEN "parseTags" ELSE NoneVal)]
    /\ UNCHANGED << tmpDirs, tmpFiles >>
    /\ UNCHANGED << threadVars, guiVars, histVars, pairVars >>
    /\ UNCHANGED << alignVars, syncVars, logVars, parseVars >>

NextScratch ==
    \/ \E w \in Workers, f \in FileNames : ProcessTextCalled(w, f, SavedText(f))
    \/ \E w \in Workers, d \in DirNames : Mkdtemp(w, d)
    \/ \E w \in Workers : MkdtempRaises(w)
    \/ \E w \in Workers : WriteText(w)
    \/ \E w \in Workers : WriteTextRaises(w)
    \/ \E w \in Workers : RunTool(w)
    \/ \E w \in Workers : RunToolRaises(w)
    \/ \E w \in Workers : Finally(w)
    \/ \E w \in Workers, raised \in BOOLEAN : ReturnParseTags(w, raised)

\* calls of processText, which may overlap, and the directories they make
SpecScratch == Init /\ [][NextScratch]_vars

----------------------------------------------------------------------------
(* PreviewSync._alignScrollAmount (preview_sync.py 93-131) *)

\* lines 118-123: the raw delta between the source and the target cursor
RawDelta(sourceGlobalTop, sourceCursorBottom, targetGlobalTop, targetCursorBottom) ==
    (sourceGlobalTop + sourceCursorBottom) - (targetGlobalTop + targetCursorBottom)

\* line 127: the least delta that keeps the cursor padding pixels from the top
TopLimit(targetCursorBottom, targetCursorHeight, padding) ==
    (0 - targetCursorBottom) + targetCursorHeight + padding

\* line 129: the greatest delta that keeps the cursor padding pixels from the bottom
BottomLimit(targetCursorBottom, targetHeight, padding) ==
    targetHeight - targetCursorBottom - padding

\* (a bug to compare with: the bottom is constrained first, the top last)
alignScrollAmountBottomFirst(sourceGlobalTop, sourceCursorBottom, targetGlobalTop, targetCursorBottom, targetHeight, targetCursorHeight, padding) ==
    LET delta0 == RawDelta(sourceGlobalTop, sourceCursorBottom,
                           targetGlobalTop, targetCursorBottom)
        delta1 == Min(BottomLimit(targetCursorBottom, targetHeight, padding),
                      delta0)
        delta2 == Max(TopLimit(targetCursorBottom, targetCursorHeight, padding),
                      delta1)
    IN  delta2

\* (a bug to compare with: the bottom is not constrained)
alignScrollAmountNoBottom(sourceGlobalTop, sourceCursorBottom, targetGlobalTop, targetCursorBottom, targetHeight, targetCursorHeight, padding) ==
    Max(TopLimit(targetCursorBottom, targetCursorHeight, padding),
        RawDelta(sourceGlobalTop, sourceCursorBottom,
                 targetGlobalTop, targetCursorBottom))

\* (a bug to compare with: the raw delta is target - source)
alignScrollAmountReversed(sourceGlobalTop, sourceCursorBottom, targetGlobalTop, targetCursorBottom, targetHeight, targetCursorHeight, padding) ==
    LET delta0 == RawDelta(targetGlobalTop, targetCursorBottom,
                           sourceGlobalTop, sourceCursorBottom)
        delta1 == Max(TopLimit(targetCursorBottom, targetCursorHeight, padding),
                      delta0)
        delta2 == Min(BottomLimit(targetCursorBottom, targetHeight, padding),
                      delta1)
    IN  delta2

\* _alignScrollAmount: lines 118-131
alignScrollAmount(sourceGlobalTop, sourceCursorBottom, targetGlobalTop, targetCursorBottom, targetHeight, targetCursorHeight, padding) ==
    LET delta0 == RawDelta(sourceGlobalTop, sourceCursorBottom,
                           targetGlobalTop, targetCursorBottom)
        delta1 == Max(TopLimit(targetCursorBottom, targetCursorHeight, padding),
                      delta0)
        delta2 == Min(BottomLimit(targetCursorBottom, targetHeight, padding),
                      delta1)
    IN  delta2

\* pixel coordinates of a widget on the screen
AlignCoords == (0 - AlignSpan) .. AlignSpan

\* pixel coordinates inside a widget, heights and paddings
AlignSizes == 0 .. AlignSpan

\* the two calls the specification of the function works out
AlignExamples ==
    { [sourceGlobalTop |-> 0, sourceCursorBottom |-> 100, targetGlobalTop |-> 0,
       targetCursorBottom |-> tcb, targetHeight |-> 500,
       targetCursorHeight |-> 20, padding |-> 10] : tcb \in {50, 490} }

\* the arguments of the calls the model makes
AlignInputs ==
    [sourceGlobalTop : AlignCoords, sourceCursorBottom : AlignSizes,
     targetGlobalTop : AlignCoords, targetCursorBottom : AlignSizes,
     targetHeight : AlignSizes, targetCursorHeight : AlignSizes,
     padding : AlignSizes]
    \cup AlignExamples

\* a call of _alignScrollAmount is about to be made
InitAlign ==
    /\ fileName = NoneVal
    /\ text = NoneVal
    /\ haveData = FALSE
    /\ lock = FALSE
    /\ wpc = [w \in Workers |-> "idle"]
    /\ wFileName = [w \in Workers |-> NoneVal]
    /\ wText = [w \in Workers |-> NoneVal]
    /\ wResult = [w \in Workers |-> NoResult]
    /\ NoCallsYet
    /\ NoScratch
    /\ gpc = "idle"
    /\ gArgs = NoArgs
    /\ tagsReadyQueue = << >>
    /\ modelTags = EmptyTags
    /\ typingTimer = [active |-> FALSE, elapsed |-> 0]
    /\ document = NoDocument
    /\ nCalls = 0
    /\ calls = << >>
    /\ lastPass = NoPass
    /\ burst = NoBurst
    /\ alignArgs \in AlignInputs
    /\ alignResult = NoAlignResult
    /\ scrollCall = NoScrollCall
    /\ scrollResult = NoScrollResult
    /\ PreviewSyncConstructed(TRUE)
    /\ watch = NoneVal
    /\ NothingLogged
    /\ parseInput = NoParseInput
    /\ parseResult = NoParseResult

\* the call returns
AlignScroll ==
    /\ ~alignResult.done
    /\ alignResult' =
           [done |-> TRUE,
            delta |-> alignScrollAmount(
                alignArgs.sourceGlobalTop, alignArgs.sourceCursorBottom,
                alignArgs.targetGlobalTop, alignArgs.targetCursorBottom,
                alignArgs.targetHeight, alignArgs.targetCursorHeight,
                alignArgs.padding)]
    /\ UNCHANGED << alignArgs, scrollCall, scrollResult >>
    /\ UNCHANGED << threadVars, guiVars, histVars, pairVars, scratchVars >>
    /\ UNCHANGED << syncVars, logVars, parseVars >>

NextAlign == AlignScroll

\* calls of _alignScrollAmount
SpecAlign == InitAlign /\ [][NextAlign]_vars

----------------------------------------------------------------------------
(* PreviewSync._scrollSync (preview_sync.py 258-341) *)

\* tolerance=50, the default of the parameter
DefaultTolerance == 50

\* abs()
Abs(x) == IF x < 0 THEN 0 - x ELSE x

\* alreadyScrolling: None, True or False
AlreadyScrolling == {NoneVal, "True", "False"}

\* the calls of _scrollSync: alreadyScrolling, and whether the page answers
\* selectionAnchorCoords() with a selection
ScrollCalls == [alreadyScrolling : AlreadyScrolling, selection : BOOLEAN]

\* two geometries with the default tolerance; the amount to scroll is within
\* the tolerance in the first one and beyond it in the second
ScrollExamples ==
    { [sourceGlobalTop |-> 0, sourceCursorBottom |-> 100, targetGlobalTop |-> 0,
       targetCursorBottom |-> tcb, targetHeight |-> 500,
       targetCursorHeight |-> 20, padding |-> DefaultTolerance] : tcb \in {50, 490} }

\* The geometry the callback of _scrollSync works with, as the arguments of
\* its call of _alignScrollAmount; padding is the tolerance.  Both views have
\* their top at 0.
ScrollInputs ==
    [sourceGlobalTop : {0}, sourceCursorBottom : AlignSizes,
     targetGlobalTop : {0}, targetCursorBottom : AlignSizes,
     targetHeight : AlignSizes, targetCursorHeight : AlignSizes,
     padding : AlignSizes]
    \cup ScrollExamples

\* line 322: if alreadyScrolling or (abs(deltaY) > tolerance)
WebScrolls(alreadyScrolling, deltaY, tolerance) ==
    alreadyScrolling = "True" \/ Abs(deltaY) > tolerance

\* callback(res) of _scrollSync (306-339) for the call c and the geometry g
ScrollSyncCallback(c, g) ==
    IF ~c.selection
    THEN [NoScrollResult EXCEPT !.done = TRUE]
    ELSE IF c.alreadyScrolling # NoneVal
         THEN LET deltaY == alignScrollAmount(
                                g.sourceGlobalTop, g.sourceCursorBottom,
                                g.targetGlobalTop, g.targetCursorBottom,
                                g.targetHeight, g.targetCursorHeight, g.padding)
              IN  [done |-> TRUE,
                   web |-> WebScrolls(c.alreadyScrolling, deltaY, g.padding),
                   editor |-> FALSE,
                   raised |-> FALSE,
                   deltaY |-> deltaY]
         ELSE LET deltaY == alignScrollAmount(
                                g.sourceGlobalTop, g.sourceCursorBottom,
                                g.targetGlobalTop, g.targetCursorBottom,
                                g.targetHeight, g.targetCursorHeight, 0)
              IN  [done |-> TRUE,
                   web |-> FALSE,
                   editor |-> g.targetCursorHeight # 0,
                   raised |-> g.targetCursorHeight = 0,
                   deltaY |-> deltaY]

\* _scrollSync has been called and has asked the page for the selection
InitScroll ==
    /\ fileName = NoneVal
    /\ text = NoneVal
    /\ haveData = FALSE
    /\ lock = FALSE
    /\ wpc = [w \in Workers |-> "idle"]
    /\ wFileName = [w \in Workers |-> NoneVal]
    /\ wText = [w \in Workers |-> NoneVal]
    /\ wResult = [w \in Workers |-> NoResult]
    /\ NoCallsYet
    /\ NoScratch
    /\ gpc = "idle"
    /\ gArgs = NoArgs
    /\ tagsReadyQueue = << >>
    /\ modelTags = EmptyTags
    /\ typingTimer = [active |-> FALSE, elapsed |-> 0]
    /\ document = NoDocument
    /\ nCalls = 0
    /\ calls = << >>
    /\ lastPass = NoPass
    /\ burst = NoBurst
    /\ alignArgs \in ScrollInputs
    /\ alignResult = NoAlignResult
    /\ scrollCall \in ScrollCalls
    /\ scrollResult = NoScrollResult
    /\ PreviewSyncConstructed(TRUE)
    /\ watch = NoneVal
    /\ NothingLogged
    /\ parseInput = NoParseInput
    /\ parseResult = NoParseResult

\* the page answers: callback(res) runs
ScrollSyncAnswered ==
    /\ ~scrollResult.done
    /\ scrollResult' = ScrollSyncCallback(scrollCall, alignArgs)
    /\ UNCHANGED << alignArgs, alignResult, scrollCall >>
    /\ UNCHANGED << threadVars, guiVars, histVars, pairVars, scratchVars >>
    /\ UNCHANGED << syncVars, logVars, parseVars >>

NextScroll == ScrollSyncAnswered

\* calls of _scrollSync
SpecScroll == InitScroll /\ [][NextScroll]_vars

----------------------------------------------------------------------------
(* PreviewSync: the slots and callbacks (preview_sync.py 511-670) *)

\* what no step of PreviewSync changes
otherVars ==
    << threadVars, guiVars, histVars, pairVars, scratchVars, alignVars, parseVars >>

\* (a bug to compare with: the suppression flag is not looked at)
ShouldRestartIgnoringFlag(running, visible) == visible

\* _onCursorPositionChanged, line 594: not self._previewToTextSyncRunning and
\* self._dock.isVisible()
ShouldRestartIgnoringDock(running, visible) == ~running

ShouldRestart(running, visible) == ~running /\ visible

\* (a bug to compare with: a running timer is left to run on)
CursorTimerNoRestart(t) == IF t.active THEN t ELSE TimerStart(t)

\* _onCursorPositionChanged, lines 595-596: stop(), then start()
CursorTimerRestart(t) == TimerStart(TimerStop(t))

\* _onCursorPositionChanged (585-596), called with the flag as it is during
\* the call; fromClick: a click in the preview has moved the cursor
OnCursorPositionChanged(running, fromClick) ==
    IF connected /\ ShouldRestart(running, dockVisible)
    THEN /\ cursorTimer' = CursorTimerRestart(cursorTimer)
         /\ cursorBurst' =
                [pending |-> TRUE, age |-> 0, fires |-> 0,
                 events |-> IF cursorBurst.pending THEN 2 ELSE 1,
                 fromClick |-> fromClick, stale |-> FALSE]
    ELSE UNCHANGED << cursorTimer, cursorBurst >>

\* workspace.cursorPositionChanged, raised by the user moving the text cursor
CursorMoved ==
    /\ OnCursorPositionChanged(previewToTextSyncRunning, FALSE)
    /\ lastAct' = [Act("cursorPositionChanged") EXCEPT
                      !.effects = IF cursorTimer' # cursorTimer
                                     \/ cursorBurst' # cursorBurst
                                  THEN {"timer"} ELSE {}]
    /\ UNCHANGED << available, connected, dockVisible, previewToTextSyncRunning,
                    syncs, syncFailed, nSyncs >>
    /\ UNCHANGED << otherVars, logVars, watch >>

\* the syncs in flight, once event has happened: stale if it is watched
MarkStale(ss, event) ==
    IF watch = event
    THEN [i \in 1 .. Len(ss) |-> [ss[i] EXCEPT !.stale = TRUE]]
    ELSE ss

\* the syncs whose matching job is in flight, once event has happened:
\* stale if it is watched
MarkJobsStale(ss, event) ==
    IF watch = event
    THEN [i \in 1 .. Len(ss) |->
             IF ss[i].stage \in JobStages /\ ~ss[i].discard
             THEN [ss[i] EXCEPT !.stale = TRUE]
             ELSE ss[i]]
    ELSE ss

\* workspace.currentDocumentChanged -> _onDocumentChanged (581-583):
\* self._runLatest.future.cancel(True); self._cursorMovementTimer.stop()
SyncOnDocumentChanged ==
    /\ IF connected
       THEN /\ syncs' = MarkStale(FutureCancel(syncs), "switch")
            /\ cursorTimer' = TimerStop(cursorTimer)
            /\ cursorBurst' = NoCursorBurst
            /\ lastAct' = [Act("documentChanged") EXCEPT !.effects =
                              IF cursorTimer.active \/ syncs' # syncs
                              THEN {"cancel"} ELSE {}]
       ELSE /\ syncs' = MarkStale(syncs, "switch")
            /\ lastAct' = Act("documentChanged")
            /\ UNCHANGED << cursorTimer, cursorBurst >>
    /\ UNCHANGED << available, connected, dockVisible, previewToTextSyncRunning,
                    syncFailed, nSyncs >>
    /\ UNCHANGED << otherVars, logVars, watch >>

\* the preview dock is closed or hidden; no code of PreviewSync runs
HideDock ==
    /\ dockVisible
    /\ dockVisible' = FALSE
    /\ syncs' = MarkJobsStale(syncs, "hide")
    /\ cursorBurst' = IF cursorTimer.active /\ watch = "hide"
                       THEN [cursorBurst EXCEPT !.stale = TRUE]
                       ELSE cursorBurst
    /\ lastAct' = NoAct
    /\ UNCHANGED << available, connected, cursorTimer, previewToTextSyncRunning,
                    syncFailed, nSyncs >>
    /\ UNCHANGED << otherVars, logVars, watch >>

\* the preview dock is shown again
ShowDock ==
    /\ ~dockVisible
    /\ dockVisible' = TRUE
    /\ lastAct' = NoAct
    /\ UNCHANGED << available, connected, cursorTimer, previewToTextSyncRunning,
                    syncs, syncFailed, nSyncs, cursorBurst >>
    /\ UNCHANGED << otherVars, logVars, watch >>

\* CursorTickMs of time pass
SyncTick ==
    /\ cursorTimer' = CursorTimerAdvance(cursorTimer, CursorTickMs)
    /\ cursorBurst' =
           IF cursorBurst.pending
           THEN [cursorBurst EXCEPT !.age = Min(CursorInterval, @ + CursorTickMs)]
           ELSE cursorBurst
    /\ << cursorTimer', cursorBurst' >> # << cursorTimer, cursorBurst >>
    /\ lastAct' = NoAct
    /\ UNCHANGED << available, connected, dockVisible, previewToTextSyncRunning,
                    syncs, syncFailed, nSyncs >>
    /\ UNCHANGED << otherVars, logVars, watch >>

\* (a bug to compare with: syncTextToPreview does not look at the capability)
SyncGuardMissing(avail) == TRUE

\* syncTextToPreview, line 604: if not findApproxTextInTarget: return
SyncGuard(avail) == avail

\* syncTextToPreview (598-610): stop the timer and ask the page for its plain
\* text.  Without the capability nothing was set up
\* in __init__, and a use of self._cursorMovementTimer raises AttributeError.
SyncTextToPreview(fromClick, stale) ==
    IF ~SyncGuard(available)
    THEN /\ lastAct' = Act("syncTextToPreview")
         /\ UNCHANGED << cursorTimer, syncs, syncFailed, nSyncs >>
    ELSE IF ~available
    THEN /\ syncFailed' = TRUE
         /\ lastAct' = Act("syncTextToPreview")
         /\ UNCHANGED << cursorTimer, syncs, nSyncs >>
    ELSE /\ cursorTimer' = TimerStop(cursorTimer)
         /\ syncs' = Append(syncs, NewSync("plainText", fromClick, stale))
         /\ nSyncs' = nSyncs + 1
         /\ lastAct' = [Act("syncTextToPreview") EXCEPT
                           !.effects = {"plainText"}, !.stale = stale]
         /\ UNCHANGED syncFailed

\* _cursorMovementTimer.timeout -> syncTextToPreview (line 568).  The timer is
\* not single-shot: it is running its next interval when the slot is entered.
OnCursorTimeout ==
    /\ CursorTimerDue(cursorTimer)
    /\ nSyncs < MaxSyncs
    /\ SyncTextToPreview(cursorBurst.fromClick, cursorBurst.stale)
    /\ cursorBurst' = [cursorBurst EXCEPT !.fires = Min(2, @ + 1),
                                           !.pending = FALSE]
    /\ UNCHANGED << available, connected, dockVisible, previewToTextSyncRunning >>
    /\ UNCHANGED << otherVars, logVars, watch >>

\* syncTextToPreview called by the preview dock ("when a sync is needed"); the
\* call serves the cursor moves that were waiting for the timer
SyncTextToPreviewCalled ==
    /\ nSyncs < MaxSyncs
    /\ SyncTextToPreview(FALSE, FALSE)
    /\ cursorBurst' = IF SyncGuard(available) /\ available
                       THEN [cursorBurst EXCEPT !.pending = FALSE]
                       ELSE cursorBurst
    /\ UNCHANGED << available, connected, dockVisible, previewToTextSyncRunning >>
    /\ UNCHANGED << otherVars, logVars, watch >>

\* the job of a sync is the one RunLatest started last
IsLatestJob(ss, i) ==
    \A j \in (i + 1) .. Len(ss) : ss[j].stage \in {"plainText", "editorScroll"}

\* (a bug to compare with: _havePlainText starts the job beside the running one)
HavePlainTextStartBeside(ss, i) == RunLatestStartNoCancel(ss, i)

\* _havePlainText, lines 632-633: self._runLatest.start(
\* self._movePreviewPaneToIndex, lambda ...: findApproxTextInTarget(...), ...)
HavePlainTextStart(ss, i) == RunLatestStart(ss, i)

\* the callback of page.toPlainText: _havePlainText (612-633)
HavePlainText ==
    /\ AtStage(syncs, "plainText") # {}
    /\ LET i == FirstAt(syncs, "plainText")
       IN  /\ syncs' = HavePlainTextStart(syncs, i)
           /\ lastAct' = ActOn("havePlainText", syncs[i], {"job"}, TRUE)
    /\ UNCHANGED << available, connected, dockVisible, cursorTimer,
                    previewToTextSyncRunning, syncFailed, nSyncs, cursorBurst >>
    /\ UNCHANGED << otherVars, logVars, watch >>

\* RunLatest's thread takes the next job and runs findApproxTextInTarget; it
\* runs one job at a time, and a cancelled job may still run
MatchStart ==
    /\ AtStage(syncs, "queued") # {}
    /\ AtStage(syncs, "running") = {}
    /\ syncs' = [syncs EXCEPT ![FirstAt(syncs, "queued")].stage = "running"]
    /\ longOpsBy' = longOpsBy \cup {<< "match", MatchThread >>}
    /\ lastAct' = NoAct
    /\ UNCHANGED << available, connected, dockVisible, cursorTimer,
                    previewToTextSyncRunning, syncFailed, nSyncs, cursorBurst >>
    /\ UNCHANGED << otherVars, viewMutators, watch >>

\* findApproxTextInTarget returns index to RunLatest's thread, which posts the
\* completion of the job to the GUI thread
MatchEnd(index) ==
    /\ AtStage(syncs, "running") # {}
    /\ syncs' = [syncs EXCEPT ![FirstAt(syncs, "running")].stage = "finished",
                              ![FirstAt(syncs, "running")].index = index]
    /\ lastAct' = NoAct
    /\ UNCHANGED << available, connected, dockVisible, cursorTimer,
                    previewToTextSyncRunning, syncFailed, nSyncs, cursorBurst >>
    /\ UNCHANGED << otherVars, logVars, watch >>

\* (a bug to compare with: the comparison is off by one, -1 is taken for a match)
IndexFoundOffByOne(index) == index >= 0 - 1

\* lines 520 and 647: the index is that of a match (textIndex >= 0, and not
\* webIndex < 0)
IndexFound(index) == index >= 0

\* the thread in which RunLatest calls the callback of a job: the thread that
\* started the job
CallbackThread == GuiThread

\* The completion of a job reaches the GUI thread.  A job whose future is
\* cancelled is dropped; otherwise _movePreviewPaneToIndex(future) (635-670)
\* runs: nothing for no match, else runJavaScript('highlightFind(...)').
DeliverResult ==
    /\ AtStage(syncs, "finished") # {}
    /\ LET i == FirstAt(syncs, "finished")
           latest == IsLatestJob(syncs, i)
       IN  IF syncs[i].discard
           THEN /\ syncs' = RemoveAt(syncs, i)
                /\ lastAct' = ActOn("discarded", syncs[i], {}, latest)
                /\ UNCHANGED viewMutators
           ELSE IF ~IndexFound(syncs[i].index)
           THEN /\ syncs' = RemoveAt(syncs, i)
                /\ lastAct' = ActOn("movePreviewPaneToIndex", syncs[i], {}, latest)
                /\ UNCHANGED viewMutators
           ELSE /\ syncs' = [syncs EXCEPT ![i].stage = "highlight"]
                /\ lastAct' = ActOn("movePreviewPaneToIndex", syncs[i],
                                    {"highlight"}, latest)
                /\ viewMutators' = viewMutators \cup {<< "preview", CallbackThread >>}
    /\ UNCHANGED << available, connected, dockVisible, cursorTimer,
                    previewToTextSyncRunning, syncFailed, nSyncs, cursorBurst >>
    /\ UNCHANGED << otherVars, longOpsBy, watch >>

\* the callback of highlightFind (664-668): if found, _scrollSync(False), which
\* asks the page for selectionAnchorCoords(), and textToPreviewSynced.emit()
HighlightCallback(found) ==
    /\ AtStage(syncs, "highlight") # {}
    /\ LET i == FirstAt(syncs, "highlight")
       IN  IF found
           THEN /\ syncs' = [syncs EXCEPT ![i].stage = "scroll"]
                /\ lastAct' = ActOn("highlightCallback", syncs[i], {"synced"},
                                    IsLatestJob(syncs, i))
           ELSE /\ syncs' = RemoveAt(syncs, i)
                /\ lastAct' = ActOn("highlightCallback", syncs[i], {},
                                    IsLatestJob(syncs, i))
    /\ UNCHANGED << available, connected, dockVisible, cursorTimer,
                    previewToTextSyncRunning, syncFailed, nSyncs, cursorBurst >>
    /\ UNCHANGED << otherVars, logVars, watch >>

\* the callback of _scrollSync(False) (306-331): nothing when the page has no
\* selection (not res); else the page is scrolled (alreadyScrolling is False:
\* whatever the tolerance)
ScrollCallback(res) ==
    /\ AtStage(syncs, "scroll") # {}
    /\ LET i == FirstAt(syncs, "scroll")
       IN  /\ syncs' = RemoveAt(syncs, i)
           /\ lastAct' = ActOn("scrollCallback", syncs[i],
                               IF res THEN {"scroll"} ELSE {},
                               IsLatestJob(syncs, i))
           /\ viewMutators' = IF res
                               THEN viewMutators \cup {<< "preview", GuiThread >>}
                               ELSE viewMutators
    /\ UNCHANGED << available, connected, dockVisible, cursorTimer,
                    previewToTextSyncRunning, syncFailed, nSyncs, cursorBurst >>
    /\ UNCHANGED << otherVars, longOpsBy, watch >>

\* (a bug to compare with: _moveTextPaneToIndex called with noWebSync=False)
NoWebSyncOff == FALSE

\* _moveTextPaneToIndex, line 523: the default of noWebSync, which is what
\* _onWebviewClick calls it with
NoWebSync == TRUE

\* A click in the preview reaches the slot _onWebviewClick(tc, webIndex)
\* (511-521), registered with the web channel in _initPreviewToTextSync (509);
\* findApproxTextInTarget, called in the slot, returns index.  If it is a
\* match, _moveTextPaneToIndex (523-544): the flag is set to noWebSync around
\* qp.setTextCursor(cursor), whose cursorPositionChanged signal calls
\* _onCursorPositionChanged in place; then ensureCursorVisible(), _scrollSync()
\* and focusCurrentDocument().  The slot is not registered when the
\* capability is absent.
WebviewClick(index) ==
    /\ nSyncs < MaxSyncs
    /\ IF ~available
       THEN /\ lastAct' = Act("webviewClick")
            /\ UNCHANGED << cursorTimer, cursorBurst, syncs, nSyncs, logVars >>
       ELSE /\ nSyncs' = nSyncs + 1
            /\ longOpsBy' = longOpsBy \cup {<< "match", GuiThread >>}
            /\ IF IndexFound(index)
               THEN /\ OnCursorPositionChanged(NoWebSync, TRUE)
                    /\ syncs' = Append(syncs, [NewSync("editorScroll", FALSE, FALSE)
                                               EXCEPT !.index = index])
                    /\ viewMutators' = viewMutators \cup {<< "text", GuiThread >>}
                    /\ lastAct' =
                           [Act("webviewClick") EXCEPT
                               !.index = index,
                               !.effects =
                                   {"cursor", "focus"} \cup
                                   (IF cursorTimer' # cursorTimer
                                    THEN {"timer"} ELSE {})]
               ELSE /\ lastAct' = [Act("webviewClick") EXCEPT !.index = index]
                    /\ UNCHANGED << cursorTimer, cursorBurst, syncs, viewMutators >>
    /\ previewToTextSyncRunning' = FALSE
    /\ UNCHANGED << available, connected, dockVisible, syncFailed >>
    /\ UNCHANGED << otherVars, watch >>

\* the callback of _scrollSync() (306-312, 333-339): nothing when the page has
\* no selection; else the editor is scrolled by vsb.setValue
EditorScrollCallback(res) ==
    /\ AtStage(syncs, "editorScroll") # {}
    /\ LET i == FirstAt(syncs, "editorScroll")
       IN  /\ syncs' = RemoveAt(syncs, i)
           /\ lastAct' = ActOn("editorScrollCallback", syncs[i],
                               IF res THEN {"editorScroll"} ELSE {}, TRUE)
           /\ viewMutators' = IF res
                               THEN viewMutators \cup {<< "text", GuiThread >>}
                               ELSE viewMutators
    /\ UNCHANGED << available, connected, dockVisible, cursorTimer,
                    previewToTextSyncRunning, syncFailed, nSyncs, cursorBurst >>
    /\ UNCHANGED << otherVars, longOpsBy, watch >>

\* terminate() (62-74): only if the capability is there, stop the timer,
\* disconnect the two slots, cancel the current job and shut RunLatest down
Terminate ==
    /\ connected \/ ~available
    /\ IF available
       THEN /\ cursorTimer' = TimerStop(cursorTimer)
            /\ connected' = FALSE
            /\ syncs' = FutureCancel(syncs)
            /\ cursorBurst' = NoCursorBurst
            /\ lastAct' = [Act("terminate") EXCEPT !.effects = {"cancel"}]
       ELSE /\ lastAct' = Act("terminate")
            /\ UNCHANGED << cursorTimer, connected, syncs, cursorBurst >>
    /\ UNCHANGED << available, dockVisible, previewToTextSyncRunning,
                    syncFailed, nSyncs >>
    /\ UNCHANGED << otherVars, logVars, watch >>

----------------------------------------------------------------------------
(* PreviewSync: specifications *)

\* PreviewSync is constructed, with or without findApproxTextInTarget; the
\* Navigator plugin is at rest
SyncConstructed ==
    /\ fileName = NoneVal
    /\ text = NoneVal
    /\ haveData = FALSE
    /\ lock = FALSE
    /\ wpc = [w \in Workers |-> "idle"]
    /\ wFileName = [w \in Workers |-> NoneVal]
    /\ wText = [w \in Workers |-> NoneVal]
    /\ wResult = [w \in Workers |-> NoResult]
    /\ NoCallsYet
    /\ NoScratch
    /\ gpc = "idle"
    /\ gArgs = NoArgs
    /\ tagsReadyQueue = << >>
    /\ modelTags = EmptyTags
    /\ typingTimer = [active |-> FALSE, elapsed |-> 0]
    /\ document = NoDocument
    /\ nCalls = 0
    /\ calls = << >>
    /\ lastPass = NoPass
    /\ burst = NoBurst
    /\ alignArgs = NoAlignArgs
    /\ alignResult = NoAlignResult
    /\ scrollCall = NoScrollCall
    /\ scrollResult = NoScrollResult
    /\ \E avail \in BOOLEAN : PreviewSyncConstructed(avail)
    /\ NothingLogged
    /\ parseInput = NoParseInput
    /\ parseResult = NoParseResult

\* the history follows no event
InitSync == SyncConstructed /\ watch = NoneVal

\* the history follows the switches of the document
InitSyncSwitch == SyncConstructed /\ watch = "switch"

\* the history follows the hiding of the dock
InitSyncHide == SyncConstructed /\ watch = "hide"

\* the events, slots and callbacks of PreviewSync
NextSync ==
    \/ CursorMoved
    \/ SyncOnDocumentChanged
    \/ HideDock
    \/ ShowDock
    \/ SyncTick
    \/ OnCursorTimeout
    \/ SyncTextToPreviewCalled
    \/ HavePlainText
    \/ MatchStart
    \/ \E index \in MatchIndexes : MatchEnd(index)
    \/ DeliverResult
    \/ \E found \in BOOLEAN : HighlightCallback(found)
    \/ \E res \in BOOLEAN : ScrollCallback(res)
    \/ \E index \in MatchIndexes : WebviewClick(index)
    \/ \E res \in BOOLEAN : EditorScrollCallback(res)
    \/ Terminate

\* PreviewSync
SpecSync == InitSync /\ [][NextSync]_vars

\* PreviewSync, with the syncs that a switch of the document finds in flight
\* marked
SpecSyncSwitch == InitSyncSwitch /\ [][NextSync]_vars

\* PreviewSync, with the syncs that the hiding of the dock finds in flight
\* marked
SpecSyncHide == InitSyncHide /\ [][NextSync]_vars

----------------------------------------------------------------------------
(* The two plugins together *)

\* the Navigator plugin as Plugin.__init__ leaves it
NavigatorAtRest ==
    /\ fileName = NoneVal
    /\ text = NoneVal
    /\ haveData = FALSE
    /\ lock = FALSE
    /\ wpc = [w \in Workers |-> "idle"]
    /\ wFileName = [w \in Workers |-> NoneVal]
    /\ wText = [w \in Workers |-> NoneVal]
    /\ wResult = [w \in Workers |-> NoResult]
    /\ NoCallsYet
    /\ NoScratch
    /\ gpc = "idle"
    /\ gArgs = NoArgs
    /\ tagsReadyQueue = << >>
    /\ modelTags = EmptyTags
    /\ typingTimer = [active |-> FALSE, elapsed |-> 0]
    /\ document = NoDocument
    /\ nCalls = 0
    /\ calls = << >>
    /\ lastPass = NoPass
    /\ burst = NoBurst

\* PreviewSync as PreviewSync.__init__ leaves it when the capability is there
PreviewSyncAtRest == PreviewSyncConstructed(TRUE)

\* The plugins share no state: each one is followed while the other one is
\* as its constructor left it.  What the two logs hold in an interleaving of
\* the two is the union of what they hold here.  The tool of the Navigator
\* succeeds: which thread runs it, and which one sets the tags, is the same
\* when it fails.
NextPlugins ==
    \/ PreviewSyncAtRest /\ NextToolOk
    \/ NavigatorAtRest /\ NextSync

\* the Navigator plugin and PreviewSync
SpecPlugins == InitSync /\ [][NextPlugins]_vars

----------------------------------------------------------------------------
(* parseTags (ctags.py 17-83) *)

\* A text is a sequence of tokens; the separators are tokens of their own.
Tab == "TAB"
Newline == "NL"
Colon == ":"
Dot == "."

\* the decimal numerals of the line numbers
DigitText == << "1", "2", "3", "4", "5", "6", "7", "8", "9" >>

\* the kinds, letter by letter
KindFunction == << "f", "u", "n", "c", "t", "i", "o", "n" >>
KindVariable == << "v", "a", "r", "i", "a", "b", "l", "e" >>
KindV == << "v" >>
Kinds == {KindFunction, KindVariable, KindV}

\* the names of the tags
TagNames == {<< "a" >>, << "b" >>}

\* the scope field of a record: none, class:a, class:x.b
ScopeTexts == {<< >>, << "class", Colon, "a" >>, << "class", Colon, "x", Dot, "b" >>}

\* The records ctags prints.  A tag has five fields, and a sixth one when it
\* has a scope; a tabbed record is a tag whose pattern holds a tab; a blank
\* record is an empty line.
TagRecords == [shape : {"tag"}, name : TagNames, kind : Kinds, scope : ScopeTexts]
TabbedRecord == [shape |-> "tabbed", name |-> << "a" >>, kind |-> KindFunction, scope |-> << "class", Colon, "a" >>]
BlankRecord == [shape |-> "blank", name |-> << >>, kind |-> << >>, scope |-> << >>]
Records == TagRecords \cup {TabbedRecord, BlankRecord}

\* the outputs of the tool, as records
RecordStreams == UNION {[1 .. n -> Records] : n \in 0 .. MaxRecords}

\* the stream foo (kind f), bar (kind v), baz (kind f) in the scope named by
\* scopeText
ExampleStream(scopeText) ==
    << [shape |-> "tag", name |-> << "foo" >>, kind |-> << "f" >>, scope |-> << >>],
       [shape |-> "tag", name |-> << "bar" >>, kind |-> << "v" >>, scope |-> << >>],
       [shape |-> "tag", name |-> << "baz" >>, kind |-> << "f" >>, scope |-> scopeText] >>

\* baz in the scope f, and in the scope foo
ExampleScopeF == ExampleStream(<< "f" >>)
ExampleScopeFoo == ExampleStream(<< "foo" >>)

\* what parseTags is given
ParseInputs == RecordStreams \cup {ExampleScopeF, ExampleScopeFoo}

\* one line of ctags -f - -u --fields=nKs: name, file, pattern, kind, line:N
\* and the scope
FormatRecord(r, n) ==
    IF r.shape = "blank"
    THEN << >>
    ELSE r.name \o << Tab, "file", Tab >>
           \o (IF r.shape = "tabbed" THEN << "/^", Tab, "$/" >> ELSE << "/^$/" >>)
           \o << Tab >> \o r.kind
           \o << Tab, "line", Colon, DigitText[n] >>
           \o (IF r.scope # << >> THEN << Tab >> \o r.scope ELSE << >>)

RECURSIVE FormatFrom(_, _)
FormatFrom(rs, i) ==
    IF i > Len(rs)
    THEN << >>
    ELSE FormatRecord(rs[i], i) \o << Newline >> \o FormatFrom(rs, i + 1)

\* stdout of the tool
TextOf(rs) == FormatFrom(rs, 1)

RECURSIVE Split(_, _)
\* str.split(sep): the pieces between the separators, one piece at least
Split(s, sep) ==
    IF \A i \in 1 .. Len(s) : s[i] # sep
    THEN << s >>
    ELSE LET i == CHOOSE k \in 1 .. Len(s) :
                      s[k] = sep /\ \A j \in 1 .. (k - 1) : s[j] # sep
         IN  << SubSeq(s, 1, i - 1) >> \o Split(SubSeq(s, i + 1, Len(s)), sep)

SplitLinesKeepLast(s) == Split(s, Newline)

\* str.splitlines(): no line after a final line break
SplitLines(s) ==
    LET pieces == Split(s, Newline)
    IN  IF Last(pieces) = << >>
        THEN SubSeq(pieces, 1, Len(pieces) - 1)
        ELSE pieces

\* s in t, for strings
IsSubstring(s, t) ==
    \E i \in 0 .. (Len(t) - Len(s)) : SubSeq(t, i + 1, i + Len(s)) = s

\* int(s) returns
IsInt(s) == Len(s) = 1 /\ \E n \in 1 .. Len(DigitText) : DigitText[n] = s[1]

\* int(s)
IntOf(s) == CHOOSE n \in 1 .. Len(DigitText) : DigitText[n] = s[1]

\* None, as a scope and as a tag
NoScope == [some |-> FALSE, name |-> << >>]
NoTag == 0

\* parseTag raised IndexError or ValueError
ParseTagRaised == [raised |-> TRUE, name |-> << >>, lineNumber |-> 0, type_ |-> << >>, scope |-> NoScope]

\* parseTag (38-53)
parseTag(line) ==
    LET items == Split(line, Tab)
        n == Len(items)
        five == n = 5
    IN  IF ~five /\ n < 3
        THEN ParseTagRaised
        ELSE LET type_ == IF five THEN items[n - 1] ELSE items[n - 2]
                 lineText == IF five THEN items[n] ELSE items[n - 1]
                 scopeText == IF five THEN << >> ELSE items[n]
                 lineDigits == Last(Split(lineText, Colon))
             IN  IF ~IsInt(lineDigits)
                 THEN ParseTagRaised
                 ELSE [raised |-> FALSE,
                       name |-> items[1],
                       lineNumber |-> IntOf(lineDigits),
                       type_ |-> type_,
                       scope |-> IF scopeText # << >>
                                 THEN [some |-> TRUE,
                                       name |-> Last(Split(Last(Split(scopeText, Colon)), Dot))]
                                 ELSE NoScope]

RECURSIVE findScope(_, _, _)
findScopeNoWalk(tags, tag, scope) ==
    IF tag # NoTag /\ scope.some /\ tags[tag].name = scope.name
    THEN tag
    ELSE NoTag

\* findScope (55-66), tags being the Tag objects made so far
findScope(tags, tag, scope) ==
    IF tag = NoTag
    THEN NoTag
    ELSE IF scope.some /\ tags[tag].name = scope.name
         THEN tag
         ELSE IF tags[tag].parent # NoTag
              THEN findScope(tags, tags[tag].parent, scope)
              ELSE NoTag

\* ignoredTypes = ('variable') (68): a string, not a tuple
ignoredTypes == KindVariable

NotIgnoredAlways(type_) == TRUE

\* type_ not in ignoredTypes (74)
NotIgnored(type_) == ~IsSubstring(type_, ignoredTypes)

\* Tag.__init__ (18-22)
Tag(name, lineNumber, parent) == [name |-> name, lineNumber |-> lineNumber, parent |-> parent, children |-> << >>]

\* parent.children.append(tag) (77-78)
WithChild(tags, parent, id) ==
    IF parent # NoTag
    THEN [tags EXCEPT ![parent].children = Append(@, id)]
    ELSE tags

RootsWithAlways(roots, parent, id) == Append(roots, id)

\* tags.append(tag) (79-80)
RootsWith(roots, parent, id) ==
    IF parent # NoTag THEN roots ELSE Append(roots, id)

\* before the loop (70-71)
ParseStart == [raised |-> FALSE, tags |-> << >>, roots |-> << >>, lastTag |-> NoTag]

RECURSIVE ParseLoop(_, _, _)
\* the loop over the lines (72-81)
ParseLoop(lines, i, st) ==
    IF i > Len(lines) \/ st.raised
    THEN st
    ELSE LET r == parseTag(lines[i])
         IN  IF r.raised
             THEN [st EXCEPT !.raised = TRUE]
             ELSE IF ~NotIgnored(r.type_)
                  THEN ParseLoop(lines, i + 1, st)
                  ELSE LET parent == findScope(st.tags, st.lastTag, r.scope)
                           id == Len(st.tags) + 1
                           made == Append(st.tags, Tag(r.name, r.lineNumber, parent))
                       IN  ParseLoop(lines, i + 1,
                                     [raised |-> FALSE,
                                      tags |-> WithChild(made, parent, id),
                                      roots |-> RootsWith(st.roots, parent, id),
                                      lastTag |-> id])

\* parseTags (37-83): the Tag objects it made, and the roots it returns
parseTags(stdout) ==
    LET st == ParseLoop(SplitLines(stdout), 1, ParseStart)
    IN  [done |-> TRUE,
         raised |-> st.raised,
         tags |-> IF st.raised THEN << >> ELSE st.tags,
         roots |-> IF st.raised THEN << >> ELSE st.roots]

\* a stream of records to parse
InitParse ==
    /\ NavigatorAtRest
    /\ alignArgs = NoAlignArgs
    /\ alignResult = NoAlignResult
    /\ scrollCall = NoScrollCall
    /\ scrollResult = NoScrollResult
    /\ PreviewSyncAtRest
    /\ watch = NoneVal
    /\ NothingLogged
    /\ parseInput \in ParseInputs
    /\ parseResult = NoParseResult

\* processText (97): return parseTags(stdout)
ParseTags ==
    /\ ~parseResult.done
    /\ parseResult' = parseTags(TextOf(parseInput))
    /\ UNCHANGED << threadVars, guiVars, histVars, pairVars, scratchVars >>
    /\ UNCHANGED << alignVars, syncVars, logVars, parseInput >>

NextParse == ParseTags

\* parseTags on the outputs of the tool
SpecParse == InitParse /\ [][NextParse]_vars

----------------------------------------------------------------------------
(* The claims about the Navigator plugin *)

\* no thread of the plugin is at work
Quiescent == gpc = "idle" /\ \A w \in Workers : wpc[w] = "idle"

\* the (fileName, text) of a call or of a pass
InputOf(r) == << r.fileName, r.text >>

\* the tool failed in the pass that ended last
LastPassFailed == lastPass.tool \in {"failed", "raised"}

\* C1: latest-wins.  When process(A) and then process(B), with another text,
\* are called, B before the worker has completed A, no emission carries the
\* tags of A and, once the worker has stopped, exactly one tagsReady emission
\* has resulted and it carries the tags of B.  (Stated for the runs in which
\* the tool does not fail on B's own input.)
C1_LatestWins ==
    ( /\ Len(calls) = 2
      /\ calls[2].early
      /\ calls[1].text # calls[2].text
      /\ ~(LastPassFailed /\ InputOf(lastPass) = InputOf(calls[2])) )
    => /\ \A i \in DOMAIN calls[1].emitted :
              calls[1].emitted[i] # TagsOf(calls[1].fileName, calls[1].text)
       /\ Quiescent =>
              calls[1].emitted = << TagsOf(calls[2].fileName, calls[2].text) >>

\* C2: the worker is never idle while unprocessed input exists: in no state is
\* _haveData true while the worker thread is stopped and no process() call
\* is on its way to start it.
C2_NeverIdleWithData == ~(haveData /\ ~IsRunning /\ gpc = "idle")

\* C3: stale results are never surfaced: a pass that emits tagsReady has
\* computed its tags from the (fileName, text) most recently passed to
\* process(); a pass whose input was superseded before its completion check
\* ends discarded.
C3_NoStaleEmission ==
    /\ lastPass.outcome = "emitted" =>
          /\ InputOf(lastPass) = lastPass.latest
          /\ lastPass.tool = "ok" =>
                 lastPass.tags = TagsOf(lastPass.latest[1], lastPass.latest[2])
    /\ (lastPass.outcome \in {"emitted", "discarded"}
         /\ InputOf(lastPass) # lastPass.latest)
          => lastPass.outcome = "discarded"

\* C3's case: B has superseded A during A's pass, A's result was dropped and
\* B's was emitted
C3_Witness ==
    /\ Len(calls) = 2
    /\ calls[2].early
    /\ InputOf(calls[1]) # InputOf(calls[2])
    /\ lastPass.outcome = "emitted"
    /\ calls[1].emitted = << TagsOf(calls[2].fileName, calls[2].text) >>

\* C4: at most one activation of run() exists, and so at most one execution
\* of processText is in flight, whenever and however often process() is called.
C4_OneInFlight ==
    /\ Cardinality({w \in Workers : wpc[w] # "idle"}) <= 1
    /\ Cardinality({w \in Workers : wpc[w] = "processText"}) <= 1

\* C4's case: process() finds the thread running, in the middle of processText
C4_Witness ==
    /\ gpc = "checkRunning"
    /\ \E w \in Workers : wpc[w] = "processText"
    /\ nCalls >= 2

\* C5: tag debounce.  The typing timer fires at most once for a burst of text
\* changes, never before a full window has passed since the last change of the
\* burst, and does not run again until the text changes again; as long as a
\* burst has not been served the timer is running.
C5_Debounce ==
    /\ burst.fires <= 1
    /\ burst.fires >= 1 => burst.age >= TypingInterval
    /\ burst.fires >= 1 => ~typingTimer.active
    /\ burst.pending => typingTimer.active
    /\ typingTimer.active => typingTimer.elapsed <= burst.age

\* C5's case: a burst of several text changes has been served by one firing of
\* the timer, which has called process()
C5_Witness ==
    /\ burst.events = 2
    /\ burst.fires = 1
    /\ gpc = "lock"
    /\ ~typingTimer.active

\* C6: a pass in which the tool fails, or its output cannot be parsed, emits
\* no tagsReady, so that TagModel keeps the tree it holds.
C6_FailureKeepsTree == LastPassFailed => lastPass.outcome # "emitted"

\* C7: every error of processText is caught in run(): run() never ends by an
\* uncaught exception.
C7_ErrorsCaught == \A w \in Workers : wpc[w] # "uncaught"

----------------------------------------------------------------------------
(* The claims about _alignScrollAmount *)

\* the raw delta of the call, by the arguments
ArgRaw ==
    (alignArgs.sourceGlobalTop + alignArgs.sourceCursorBottom)
    - (alignArgs.targetGlobalTop + alignArgs.targetCursorBottom)

\* the lower clamp of the call, by the arguments
ArgLower ==
    alignArgs.targetCursorHeight + alignArgs.padding - alignArgs.targetCursorBottom

\* the upper clamp of the call, by the arguments
ArgUpper ==
    alignArgs.targetHeight - alignArgs.targetCursorBottom - alignArgs.padding

\* the distance of two deltas
Dist(a, b) == IF a >= b THEN a - b ELSE b - a

\* the clamps that are nearest to the raw delta
NearestLimits ==
    {b \in {ArgLower, ArgUpper} :
        \A c \in {ArgLower, ArgUpper} : Dist(ArgRaw, b) <= Dist(ArgRaw, c)}

\* C8: _alignScrollAmount returns min(upper, max(lower, raw)): the lower clamp
\* is applied first and the upper clamp last; (0, 100, 0, 50, 500, 20, 10)
\* gives 50 and (0, 100, 0, 490, 500, 20, 10) gives -390.
C8_TwoStepClamp ==
    alignResult.done =>
        /\ LET afterLower == IF ArgRaw < ArgLower THEN ArgLower ELSE ArgRaw
               afterUpper == IF afterLower > ArgUpper THEN ArgUpper ELSE afterLower
           IN  alignResult.delta = afterUpper
        /\ alignArgs \in AlignExamples =>
               alignResult.delta = (IF alignArgs.targetCursorBottom = 50
                                    THEN 50 ELSE 0 - 390)

\* C8's case: the two clamps cross and the raw delta is above both, so that the
\* order of the two steps decides the result
C8_Witness ==
    /\ alignResult.done
    /\ ArgLower > ArgUpper
    /\ ArgRaw > ArgLower
    /\ alignResult.delta = ArgUpper

\* C9 as claimed: the returned delta keeps the target cursor at least padding
\* pixels from both edges of the target: padding <= bottom + delta - height of
\* the cursor, and bottom + delta <= targetHeight - padding.
C9_BothEdges ==
    alignResult.done =>
        /\ alignArgs.padding <=
               (alignArgs.targetCursorBottom + alignResult.delta)
               - alignArgs.targetCursorHeight
        /\ alignArgs.targetCursorBottom + alignResult.delta <=
               alignArgs.targetHeight - alignArgs.padding

\* C9 as amended: the cursor is always kept padding pixels from the bottom
\* edge, and padding pixels from the top edge whenever the target is high
\* enough for the cursor and both paddings.
C9_EdgesWhenRoom ==
    alignResult.done =>
        /\ alignArgs.targetCursorBottom + alignResult.delta <=
               alignArgs.targetHeight - alignArgs.padding
        /\ alignArgs.targetHeight >=
               alignArgs.targetCursorHeight + 2 * alignArgs.padding
           => alignArgs.padding <=
                  (alignArgs.targetCursorBottom + alignResult.delta)
                  - alignArgs.targetCursorHeight

\* C9's case: there is room, there is padding, and the raw delta would put the
\* cursor below the bottom edge
C9_Witness ==
    /\ alignResult.done
    /\ alignArgs.padding > 0
    /\ alignArgs.targetHeight >=
           alignArgs.targetCursorHeight + 2 * alignArgs.padding
    /\ ArgRaw > ArgUpper

\* C10 as claimed: the result is the raw delta when the raw delta keeps the
\* cursor inside the padded viewport, and otherwise the one of the two padded
\* boundaries that is nearest to the raw delta.
C10_NearestBoundary ==
    alignResult.done =>
        IF ArgLower <= ArgRaw /\ ArgRaw <= ArgUpper
        THEN alignResult.delta = ArgRaw
        ELSE alignResult.delta \in NearestLimits

\* C10 as amended: that holds when lower <= upper; when lower > upper the
\* result is upper, whatever the raw delta is.
C10_NearestWhenRoom ==
    alignResult.done =>
        IF ArgLower <= ArgUpper
        THEN IF ArgLower <= ArgRaw /\ ArgRaw <= ArgUpper
             THEN alignResult.delta = ArgRaw
             ELSE alignResult.delta \in NearestLimits
        ELSE alignResult.delta = ArgUpper

\* C10's case: the boundaries are apart and the raw delta is below the lower one
C10_Witness ==
    /\ alignResult.done
    /\ ArgLower < ArgUpper
    /\ ArgRaw < ArgLower
    /\ alignResult.delta = ArgLower

----------------------------------------------------------------------------
(* The claims about PreviewSync *)

\* C11: cursor-sync debounce.  The cursor timer fires at most once for a burst
\* of cursor moves, never before a full window of 300 ms has passed since the
\* last move of the burst (a move inside the window restarts the timer), and
\* does not run again until the cursor moves again; each firing is one call of
\* syncTextToPreview, which starts one sync and so one matching job.
C11_CursorDebounce ==
    /\ cursorBurst.fires <= 1
    /\ cursorBurst.fires >= 1 => cursorBurst.age >= CursorInterval
    /\ cursorBurst.fires >= 1 => ~cursorTimer.active
    /\ cursorBurst.pending <=> cursorTimer.active
    /\ cursorTimer.active => cursorTimer.elapsed <= cursorBurst.age
    /\ Len(syncs) <= nSyncs

\* C11's case: two cursor moves, the second inside the window of the first,
\* have been served by one firing of the timer, and the one job is started
C11_Witness ==
    /\ cursorBurst.events = 2
    /\ cursorBurst.fires = 1
    /\ nSyncs = 1
    /\ Len(syncs) = 1
    /\ syncs[1].stage = "queued"

\* the jobs RunLatest holds whose result is still to be delivered
ActiveJobs == {i \in 1 .. Len(syncs) : syncs[i].stage \in JobStages /\ ~syncs[i].discard}

\* C12: text-to-preview latest-wins.  At most one matching job is active, one
\* job runs at a time, and _movePreviewPaneToIndex is only called with the
\* result of the job started last: the completion of an older job, finishing
\* after a newer job was started, is dropped.
C12_LatestJobWins ==
    /\ Cardinality(ActiveJobs) <= 1
    /\ Cardinality(AtStage(syncs, "running")) <= 1
    /\ lastAct.handler = "movePreviewPaneToIndex" => lastAct.latest
    /\ (lastAct.handler \in {"movePreviewPaneToIndex", "discarded"} /\ ~lastAct.latest)
           => lastAct.handler = "discarded" /\ lastAct.effects = {}

\* C12's case: an older job has finished after a newer one was started, and
\* its completion has just been dropped
C12_Witness ==
    /\ lastAct.handler = "discarded"
    /\ ~lastAct.latest
    /\ Len(syncs) >= 1
    /\ syncs[1].stage \in JobStages

\* what the text-to-preview pipeline does with a sync: start its matching
\* job, highlight, scroll the preview, emit textToPreviewSynced
PipelineEffects == {"job", "highlight", "scroll", "synced"}

\* what is applied to the preview
PreviewEffects == {"highlight", "scroll", "synced"}

\* C13: a switch of the document cancels the text-to-preview pipeline: after
\* currentDocumentChanged the timer is stopped and no matching job is active,
\* and no sync initiated before the switch starts a matching job or applies
\* a highlight or a scroll to the preview afterwards.
C13_SwitchCancels ==
    /\ (lastAct.handler = "documentChanged" /\ connected)
           => ~cursorTimer.active /\ ActiveJobs = {}
    /\ lastAct.stale => lastAct.effects \cap PipelineEffects = {}

\* C14: hiding the preview dock cancels the pipeline: a timer that is running,
\* or a job that is in flight, when the dock becomes hidden never leads to a
\* result being applied to the preview.
C14_HideCancels == lastAct.stale => lastAct.effects \cap PreviewEffects = {}

\* C15: feedback suppression.  The cursorPositionChanged raised by the cursor
\* move of _moveTextPaneToIndex is ignored: a click in the preview that moves
\* the text cursor does not start the cursor timer, and no sync in flight comes
\* from such a cursor move.
C15_ClickDoesNotSync ==
    /\ ~cursorBurst.fromClick
    /\ \A i \in 1 .. Len(syncs) : ~syncs[i].fromClick
    /\ lastAct.handler = "webviewClick" => "timer" \notin lastAct.effects

\* C15's case: a click has moved the text cursor while the slot of
\* cursorPositionChanged is connected and the dock is visible
C15_Witness ==
    /\ lastAct.handler = "webviewClick"
    /\ "cursor" \in lastAct.effects
    /\ connected
    /\ dockVisible

\* C16: MatchNotFound skips the sync action: with a negative index
\* _movePreviewPaneToIndex issues no highlight, and so no scroll and no
\* textToPreviewSynced follow; _onWebviewClick moves no cursor, scrolls no
\* editor and changes no focus; nothing is raised.
C16_NotFoundSkips ==
    /\ (lastAct.handler \in {"movePreviewPaneToIndex", "webviewClick"}
          /\ lastAct.index = 0 - 1) => lastAct.effects = {}
    /\ \A i \in 1 .. Len(syncs) :
           syncs[i].stage \in {"highlight", "scroll", "editorScroll"}
               => syncs[i].index >= 0
    /\ ~syncFailed

\* C16's case: _movePreviewPaneToIndex has been called with no match, after a
\* click in the preview for which the match was computed too
C16_Witness ==
    /\ lastAct.handler = "movePreviewPaneToIndex"
    /\ lastAct.index = 0 - 1
    /\ << "match", GuiThread >> \in longOpsBy

\* C17: without findApproxTextInTarget the sync is disabled: nothing is
\* connected, and cursor moves, document switches, clicks in the preview,
\* syncTextToPreview and terminate start no timer and no job, change no view
\* and raise nothing.
C17_DisabledWhenUnavailable ==
    ~available =>
        /\ ~connected
        /\ ~cursorTimer.active
        /\ cursorBurst = NoCursorBurst
        /\ syncs = << >>
        /\ nSyncs = 0
        /\ ~syncFailed
        /\ lastAct.effects = {}
        /\ viewMutators = {}
        /\ longOpsBy = {}

\* C17's case: syncTextToPreview has been called without the capability
C17_Witness == ~available /\ lastAct.handler = "syncTextToPreview"

----------------------------------------------------------------------------
(* The claims about the threads of the two plugins *)

\* C18: every change of a view is made by the GUI thread: TagModel.setTags,
\* the highlight and the scroll of the preview, the move of the text cursor.
\* The worker of the Navigator and the matching job only compute: the worker
\* runs ctags and the job runs the match, each on its own thread.
C18_ViewsOnMainThread ==
    /\ \A m \in viewMutators : m[2] = GuiThread
    /\ \A m \in viewMutators : m[1] \in {"tree", "preview", "text"}
    /\ << "tree", GuiThread >> \in viewMutators
           => << "ctags", WorkerThread >> \in longOpsBy
    /\ \A i \in 1 .. Len(syncs) :
           (syncs[i].stage \in {"highlight", "scroll"} /\ ~syncs[i].fromClick)
               => << "match", MatchThread >> \in longOpsBy

\* C18's case: a matching job has run on its thread, and the preview has been
\* highlighted and the text cursor moved
C18_Witness ==
    /\ << "match", MatchThread >> \in longOpsBy
    /\ << "preview", GuiThread >> \in viewMutators
    /\ << "text", GuiThread >> \in viewMutators

\* C19: the ctags tool and the approximate match are never run by the GUI
\* thread, in the Navigator and in both directions of the sync.
C19_LongOpsOffMainThread == \A op \in longOpsBy : op[2] # GuiThread

----------------------------------------------------------------------------
(* The claims about parseTags *)

\* every record is a tag of five or six fields
WellFormed(rs) == \A i \in 1 .. Len(rs) : rs[i].shape = "tag"

\* how many times x occurs in the sequence s
Occurrences(s, x) == Cardinality({i \in 1 .. Len(s) : s[i] = x})

\* in how many places the tag t is held: the returned roots, and the children
\* of every tag
Places(res, t) ==
    LET held == [p \in 1 .. Len(res.tags) |-> Occurrences(res.tags[p].children, t)]
        RECURSIVE Sum(_)
        Sum(n) == IF n = 0 THEN 0 ELSE held[n] + Sum(n - 1)
    IN  Occurrences(res.roots, t) + Sum(Len(res.tags))

RECURSIVE ChainEnd(_, _, _)
\* the tag without a parent that the chain of parents of t ends at, NoTag if
\* it has not ended after fuel steps
ChainEnd(res, t, fuel) ==
    IF res.tags[t].parent = NoTag
    THEN t
    ELSE IF fuel = 0
         THEN NoTag
         ELSE ChainEnd(res, res.tags[t].parent, fuel - 1)

\* the records of rs that parseTags does not skip
KeptRecords(rs) == {i \in 1 .. Len(rs) : NotIgnored(rs[i].kind)}

\* C20: for a well-formed output parseTags returns a forest: the chain of
\* parents of every tag is finite and acyclic and ends at a returned root,
\* every tag is held in exactly one place (the children of its parent, or the
\* roots iff it has no parent), and there are as many tags as records that
\* are not ignored.
C20_ParseForest ==
    (parseResult.done /\ WellFormed(parseInput)) =>
        /\ ~parseResult.raised
        /\ Len(parseResult.tags) = Cardinality(KeptRecords(parseInput))
        /\ \A t \in 1 .. Len(parseResult.tags) :
               /\ parseResult.tags[t].parent \in 0 .. Len(parseResult.tags)
               /\ ChainEnd(parseResult, t, Len(parseResult.tags)) # NoTag
               /\ Occurrences(parseResult.roots,
                              ChainEnd(parseResult, t, Len(parseResult.tags))) = 1
               /\ Places(parseResult, t) = 1
               /\ parseResult.tags[t].parent = NoTag
                      <=> Occurrences(parseResult.roots, t) = 1
               /\ parseResult.tags[t].parent # NoTag
                      => Occurrences(parseResult.tags[parseResult.tags[t].parent].children, t) = 1

\* C20's case: a well-formed output of three records, one of them ignored,
\* parsed into a root and its child
C20_Witness ==
    /\ parseResult.done
    /\ WellFormed(parseInput)
    /\ Len(parseInput) = 3
    /\ Len(parseResult.tags) = 2
    /\ Len(parseResult.roots) = 1
    /\ parseResult.tags[2].parent = 1

\* the tag t of res is named name, is of line lineNumber, has the parent
\* parent and the children children
IsTag(res, t, name, lineNumber, parent, children) ==
    /\ res.tags[t].name = << name >>
    /\ res.tags[t].lineNumber = lineNumber
    /\ res.tags[t].parent = parent
    /\ res.tags[t].children = children

\* C21 as stated: the stream foo (line 1, kind f), bar (line 2, kind v), baz
\* (line 3, kind f, scope f) is parsed into the one root foo with the one
\* child baz, and bar is absent.
C21_ExampleNested ==
    (parseResult.done /\ parseInput = ExampleScopeF) =>
        /\ ~parseResult.raised
        /\ Len(parseResult.tags) = 2
        /\ parseResult.roots = << 1 >>
        /\ IsTag(parseResult, 1, "foo", 1, NoTag, << 2 >>)
        /\ IsTag(parseResult, 2, "baz", 3, 1, << >>)

\* C21, amended: with the scope f, which no tag is named, baz is a second
\* root beside foo; it is nested under foo when its scope is foo.  bar is
\* absent from both results.
C21_ExampleParsed ==
    /\ (parseResult.done /\ parseInput = ExampleScopeF) =>
           /\ ~parseResult.raised
           /\ Len(parseResult.tags) = 2
           /\ parseResult.roots = << 1, 2 >>
           /\ IsTag(parseResult, 1, "foo", 1, NoTag, << >>)
           /\ IsTag(parseResult, 2, "baz", 3, NoTag, << >>)
    /\ (parseResult.done /\ parseInput = ExampleScopeFoo) =>
           /\ ~parseResult.raised
           /\ Len(parseResult.tags) = 2
           /\ parseResult.roots = << 1 >>
           /\ IsTag(parseResult, 1, "foo", 1, NoTag, << 2 >>)
           /\ IsTag(parseResult, 2, "baz", 3, 1, << >>)

\* C21's case: the stream of the example has been parsed
C21_Witness == parseResult.done /\ parseInput = ExampleScopeF

\* how many fields the record i of rs has, as the tool prints it
FieldCount(rs, i) == Len(Split(FormatRecord(rs[i], i), Tab))

\* the records of rs that have neither five nor six fields
Malformed(rs) == {i \in 1 .. Len(rs) : FieldCount(rs, i) \notin {5, 6}}

\* C22: parseTags raises for every input that holds a malformed record, a
\* record of neither five nor six fields; no such record is taken as a tag.
C22_MalformedRaises ==
    (parseResult.done /\ Malformed(parseInput) # {}) => parseResult.raised

\* C23: parseTags('') returns no root and raises nothing.
C23_EmptyInput ==
    (parseResult.done /\ TextOf(parseInput) = << >>) =>
        /\ ~parseResult.raised
        /\ parseResult.roots = << >>
        /\ parseResult.tags = << >>

\* C23's case: the empty string has been parsed
C23_Witness == parseResult.done /\ TextOf(parseInput) = << >>

RECURSIVE KeptFrom(_, _)
\* the records of rs from i on that parseTags does not skip, in their order
KeptFrom(rs, i) ==
    IF i > Len(rs)
    THEN << >>
    ELSE (IF NotIgnored(rs[i].kind) THEN << i >> ELSE << >>) \o KeptFrom(rs, i + 1)

\* the scope name of a record: what follows the last separator of its scope
ScopeNameOf(r) ==
    IF r.scope = << >> THEN NoScope ELSE [some |-> TRUE, name |-> << Last(r.scope) >>]

RECURSIVE AncestorAt(_, _, _)
\* the tag d steps up the chain of parents of t (t itself for d = 0), NoTag
\* beyond the end of the chain
AncestorAt(res, t, d) ==
    IF t = NoTag \/ d = 0
    THEN t
    ELSE AncestorAt(res, res.tags[t].parent, d - 1)

\* how far up the chain of t the tags named as scope are
NamedOnChain(res, t, scope) ==
    {d \in 0 .. Len(res.tags) :
        /\ AncestorAt(res, t, d) # NoTag
        /\ scope.some
        /\ res.tags[AncestorAt(res, t, d)].name = scope.name}

\* the first tag on the chain of t that is named as scope, NoTag if none is
FirstNamed(res, t, scope) ==
    IF NamedOnChain(res, t, scope) = {}
    THEN NoTag
    ELSE AncestorAt(res, t, CHOOSE d \in NamedOnChain(res, t, scope) :
                                \A e \in NamedOnChain(res, t, scope) : d <= e)

\* C24: scope resolution.  The tag of a record that is not ignored has the
\* name and the line of the record; its parent is the first tag named as the
\* scope of the record on the chain that starts at the tag made before it (the
\* last-seen tag, whatever its depth) and follows the parents; it is a root
\* when the record has no scope or when no tag of that chain has the name.
C24_ScopeResolution ==
    (parseResult.done /\ ~parseResult.raised) =>
        /\ Len(parseResult.tags) = Len(KeptFrom(parseInput, 1))
        /\ \A t \in 1 .. Len(parseResult.tags) :
               LET r == parseInput[KeptFrom(parseInput, 1)[t]]
               IN  /\ parseResult.tags[t].name = r.name
                   /\ parseResult.tags[t].lineNumber = KeptFrom(parseInput, 1)[t]
                   /\ parseResult.tags[t].parent
                          = FirstNamed(parseResult, t - 1, ScopeNameOf(r))
                   /\ r.scope = << >> => parseResult.tags[t].parent = NoTag

\* C24's case: the third tag is attached to the parent of the last-seen tag,
\* which is nested itself
C24_Witness ==
    /\ parseResult.done
    /\ Len(parseResult.tags) = 3
    /\ parseResult.tags[2].parent = 1
    /\ parseResult.tags[3].parent = 1

\* the records of rs whose kind is not the kind variable
NotVariable(rs) == {i \in 1 .. Len(rs) : rs[i].kind # KindVariable}

\* C25: a record is skipped if and only if its kind is the kind variable:
\* every record of another kind makes exactly one tag, so that there are as
\* many tags as records of another kind.
C25_SkippedIffVariable ==
    (parseResult.done /\ ~parseResult.raised) =>
        /\ Len(parseResult.tags) = Cardinality(NotVariable(parseInput))
        /\ \A i \in NotVariable(parseInput) :
               \E t \in 1 .. Len(parseResult.tags) : parseResult.tags[t].lineNumber = i

----------------------------------------------------------------------------
(* More claims about PreviewSync and the Navigator plugin *)

\* the text-to-preview syncs that are applying a result: their highlight or
\* their scroll has been asked of the page and its callback has not run
Applying == AtStage(syncs, "highlight") \cup AtStage(syncs, "scroll")

\* C26: while the text-to-preview direction is applying a result, a click in
\* the preview is ignored by _onWebviewClick: it moves no text cursor.
C26_ClickIgnoredWhileApplying ==
    (lastAct.handler = "webviewClick" /\ Applying # {}) => lastAct.effects = {}

\* C27: _onCursorPositionChanged starts the cursor timer anew if and only if
\* _previewToTextSyncRunning is False and the dock is visible; otherwise it
\* leaves the timer, running or not, and the syncs as they are.  The handler
\* runs for a cursor move of the user and, with _previewToTextSyncRunning
\* True, for the cursor move of a click in the preview.
C27_CursorHandlerFrame ==
    [][/\ (connected /\ lastAct'.handler = "cursorPositionChanged") =>
              IF ~previewToTextSyncRunning /\ dockVisible
              THEN /\ cursorTimer' = [active |-> TRUE, elapsed |-> 0]
                   /\ UNCHANGED << syncs, nSyncs, previewToTextSyncRunning >>
              ELSE UNCHANGED << cursorTimer, cursorBurst, syncs, nSyncs,
                                previewToTextSyncRunning >>
       /\ lastAct'.handler = "webviewClick" =>
              UNCHANGED << cursorTimer, cursorBurst >>]_vars

\* C27's case: the cursor has moved while the dock was hidden, and the timer
\* that was running has been left to run
C27_Witness ==
    /\ lastAct.handler = "cursorPositionChanged"
    /\ lastAct.effects = {}
    /\ connected
    /\ ~dockVisible
    /\ cursorTimer.active

\* C28: a switch of the document schedules the extraction at once and cancels
\* the debounce: the typing timer is stopped, and process() is called with
\* the name and the text of the new document when it has a file name.  The
\* timer runs only for a change of the text made since
\* _scheduleDocumentProcessing last ran, so that no change made before the
\* switch causes a second extraction.
C28_SwitchSchedulesAtOnce ==
    [][/\ (document' # document /\ ~burst'.pending) =>
              /\ ~typingTimer'.active
              /\ IF HasFileName(document')
                 THEN /\ gpc' = "lock"
                      /\ gArgs' = [fileName |-> document'.fileName,
                                   text |-> document'.text]
                 ELSE gpc' = "idle"
       /\ typingTimer'.active => burst'.pending]_vars

\* C28's case: after a pass for a.py the document is switched to b.py, and
\* process() is being called for b.py with the timer stopped
C28_Witness ==
    /\ gpc = "lock"
    /\ gArgs = [fileName |-> "b.py", text |-> SavedText("b.py")]
    /\ document.fileName = "b.py"
    /\ ~typingTimer.active
    /\ nCalls = 1
    /\ calls[1].fileName = "a.py"

\* C29: the tolerance rule of _scrollSync for the web view.  With
\* alreadyScrolling True the web view is scrolled only if the amount to scroll
\* exceeds the tolerance; with alreadyScrolling False it is scrolled whatever
\* the tolerance; without a selection nothing is scrolled.
C29_ToleranceRule ==
    scrollResult.done =>
        /\ (scrollCall.selection /\ scrollCall.alreadyScrolling = "True") =>
               (scrollResult.web <=> Abs(scrollResult.deltaY) > alignArgs.padding)
        /\ (scrollCall.selection /\ scrollCall.alreadyScrolling = "False") =>
               scrollResult.web
        /\ ~scrollCall.selection => ~scrollResult.web /\ ~scrollResult.editor

----------------------------------------------------------------------------
(* The claim about the lock of ProcessorThread *)

\* the GUI thread is inside the with block of process() (168-173)
GuiInside == gpc \in {"setFileName", "setHaveData", "setText", "checkRunning"}

\* an activation of run() is inside one of its with blocks (179-182, 186-190)
WorkerInside(w) ==
    wpc[w] \in {"readFileName", "readText", "clearHaveData", "checkHaveData"}

\* run() holds a pair it has read: from line 182 to the end of the pass
HoldsPair(w) ==
    wpc[w] \in {"clearHaveData", "processText", "check", "checkHaveData"}

\* the number of the process() call kept as calls[i]
CallNumber(i) == nCalls - Len(calls) + i

\* C32: _fileName, _text and _haveData are read and written only by the
\* thread that holds the lock, one thread at a time; the file name and the
\* text a pass of run() works on were written by one and the same process()
\* call, and are that call's arguments; and whenever nobody holds the lock,
\* _haveData is false exactly when run() has read the pair of the latest
\* process() call.
C32_PairFromOneCall ==
    /\ (GuiInside \/ \E w \in Workers : WorkerInside(w)) => lock
    /\ ~(GuiInside /\ \E w \in Workers : WorkerInside(w))
    /\ \A v, w \in Workers : (WorkerInside(v) /\ WorkerInside(w)) => v = w
    /\ \A w \in Workers :
           HoldsPair(w) =>
               /\ wCalls[w].fileName = wCalls[w].text
               /\ wCalls[w].text >= 1
               /\ \A i \in DOMAIN calls :
                      CallNumber(i) = wCalls[w].text =>
                          /\ wFileName[w] = calls[i].fileName
                          /\ wText[w] = calls[i].text
    /\ ~lock => (~haveData <=> lastRead = nCalls)

\* run() works on the pair of the second call, which was made for another
\* file while run() was busy with the first
C32_Witness ==
    /\ nCalls = 2
    /\ calls[1].fileName # calls[2].fileName
    /\ lastPass.outcome = "discarded"
    /\ ~haveData
    /\ \E w \in Workers :
           /\ wpc[w] = "processText"
           /\ wCalls[w] = [fileName |-> 2, text |-> 2]
           /\ wFileName[w] = calls[2].fileName

----------------------------------------------------------------------------
(* The claim about the scratch directory of processText *)

\* the call of w has made its directory and has not yet left processText's
\* finally clause
HasScratch(w) == ptCalls[w].pc \in {"write", "popen", "finally"}

\* C31: the directory made for a call of processText is that call's alone, and
\* is gone when the call is over.  Every directory that exists is the tmpDir
\* of one call that is executing, no two calls have the same one, every file
\* in it was written by its call; when no call of processText is executing no
\* directory and no file exists, also after a call in which writing the text
\* or running the tool raised.
C31_ScratchRemoved ==
    /\ tmpDirs = {ptCalls[w].tmpDir : w \in {v \in Workers : HasScratch(v)}}
    /\ \A v, w \in Workers :
           (HasScratch(v) /\ HasScratch(w) /\ ptCalls[v].tmpDir = ptCalls[w].tmpDir)
               => v = w
    /\ \A f \in tmpFiles :
           /\ HasScratch(f.by)
           /\ f.dir = ptCalls[f.by].tmpDir
           /\ f.name = ptCalls[f.by].fileName
    /\ (\A w \in Workers : ptCalls[w].pc = "idle") => (tmpDirs = {} /\ tmpFiles = {})

\* no call is executing; one has ended because writing the text raised and
\* another because the tool could not be run
C31_Witness ==
    /\ \A w \in Workers : ptCalls[w].pc = "idle"
    /\ \E w \in Workers : ptCalls[w].failed = "write"
    /\ \E w \in Workers : ptCalls[w].failed = "popen"
    /\ tmpDirs = {}

====
